---- MODULE Spec2Model ----
(***************************************************************************)
(* Model of nx-cache-server: the bearer-token middleware, the PUT/GET      *)
(* handlers of /v1/cache/{hash}, the multi-bucket router and the S3        *)
(* adapter, over an object store whose operations are atomic.              *)
(*                                                                         *)
(* A Rust String is a sequence of characters; a character is a one-char    *)
(* TLA+ string, or the name of its code point ("U+00E9") when it is not    *)
(* ASCII.  Option<T> is <<>> (None) or <<x>> (Some(x)).                    *)
(***************************************************************************)
EXTENDS Integers, Sequences, FiniteSets, TLC

VARIABLES store, conn, started, acked, written, boot, stream, pure

vars == <<store, conn, started, acked, written, boot, stream, pure>>

-----------------------------------------------------------------------------
(* Bounds of the model *)

\* requests a behaviour of Spec starts in all
MaxRequests == 2

\* requests a behaviour of SpecAuth or SpecHash (one request at a time)
\* starts in all
MaxSeqRequests == 2

-----------------------------------------------------------------------------
(* Characters and strings *)

None == <<>>

Some(x) == <<x>>

AsciiLetters ==
    {"a","b","c","d","e","f","g","h","i","j","k","l","m",
     "n","o","p","q","r","s","t","u","v","w","x","y","z",
     "A","B","C","D","E","F","G","H","I","J","K","L","M",
     "N","O","P","Q","R","S","T","U","V","W","X","Y","Z"}

AsciiDigits == {"0","1","2","3","4","5","6","7","8","9"}

\* the other visible ASCII characters the inputs use
AsciiPunct == {" ", "-", "_", "@", "/", "#", "$", "%", ".", "="}

\* U+00E9 (e with acute, a letter, 2 bytes in UTF-8), U+0663 (arabic-indic
\* digit three, 2 bytes), U+20AC (euro sign, a symbol, 3 bytes)
UnicodeLetters == {"U+00E9"}

UnicodeDigits == {"U+0663"}

UnicodeSymbols == {"U+20AC"}

IsAscii(c) == c \in AsciiLetters \cup AsciiDigits \cup AsciiPunct

\* char::is_alphanumeric: Unicode Alphabetic or Numeric, not only ASCII
is_alphanumeric(c) ==
    c \in AsciiLetters \cup AsciiDigits \cup UnicodeLetters \cup UnicodeDigits

\* char::len_utf8
len_utf8(c) ==
    IF IsAscii(c) THEN 1
    ELSE IF c \in UnicodeLetters \cup UnicodeDigits THEN 2
    ELSE 3

\* str::len: the length in bytes, the sum of the characters' widths
str_len(s) ==
    LET wide(n) == Cardinality({i \in 1..Len(s) : len_utf8(s[i]) = n})
    IN  wide(1) + 2 * wide(2) + 3 * wide(3)

\* str::is_empty
is_empty(s) == Len(s) = 0

\* str::strip_prefix
strip_prefix(s, p) ==
    IF Len(s) >= Len(p) /\ SubSeq(s, 1, Len(p)) = p
    THEN Some(SubSeq(s, Len(p) + 1, Len(s)))
    ELSE None

\* HeaderValue::to_str(..).ok(): Some only when every byte is visible ASCII
to_str(v) ==
    IF \A i \in 1..Len(v) : IsAscii(v[i]) THEN Some(v) ELSE None

\* a comparison that stops at the lengths
ct_eq_lengths(a, b) == Len(a) = Len(b)

\* subtle::ConstantTimeEq on byte slices: equal lengths and equal bytes
ct_eq(a, b) ==
    /\ Len(a) = Len(b)
    /\ \A i \in 1..Len(a) : a[i] = b[i]

Repeat(c, n) == [i \in 1..n |-> c]

-----------------------------------------------------------------------------
(* Result<T, E> *)

Ok(x) == [ok |-> TRUE, val |-> x]

Err(e) == [ok |-> FALSE, err |-> e]

-----------------------------------------------------------------------------
(* Resolved configuration: two tenants sharing bucket b1 under different   *)
(* prefixes, one tenant without prefix on bucket b2                        *)

Buckets == <<[name |-> "b1"], [name |-> "b2"]>>

TokA == <<"t","A">>

TokB == <<"t","B">>

TokC == <<"t","C">>

ServiceAccessTokens ==
    << [name |-> "ci-team",  bucket |-> "b1",
        prefix |-> <<"/","c","i">>, access_token |-> TokA],
       [name |-> "dev-team", bucket |-> "b1",
        prefix |-> <<"/","d","e","v">>, access_token |-> TokB],
       [name |-> "no-prefix-team", bucket |-> "b2",
        prefix |-> <<>>, access_token |-> TokC] >>

\* ResolvedConfig::build_token_registry: collect() into a HashMap, a later
\* entry with the same token replaces an earlier one
\* a registry that keeps the tokens and forgets their prefixes
build_token_registry_no_prefix(list) ==
    [k \in {list[i].access_token : i \in DOMAIN list} |->
        [(CHOOSE e \in {list[i] : i \in DOMAIN list} : e.access_token = k)
            EXCEPT !.prefix = <<>>]]

build_token_registry(list) ==
    LET keys == {list[i].access_token : i \in DOMAIN list}
        last(k) == CHOOSE i \in DOMAIN list :
                      /\ list[i].access_token = k
                      /\ \A j \in DOMAIN list :
                            list[j].access_token = k => j <= i
    IN  [k \in keys |-> list[last(k)]]

\* MultiStorageRouter::from_config: one storage per configured bucket
storages == {Buckets[i].name : i \in DOMAIN Buckets}

token_map == build_token_registry(ServiceAccessTokens)

\* MultiStorageRouter::tokens
tokens == DOMAIN token_map

-----------------------------------------------------------------------------
(* HTTP responses.  ctype is the Content-Type header (an Option), text a   *)
(* textual body, data a body of bytes.                                     *)

Response(status, ctype, text, data) ==
    [status |-> status, ctype |-> ctype, text |-> text, data |-> data]

\* axum: IntoResponse for StatusCode, an empty body and no Content-Type
StatusCodeResponse(status) == Response(status, None, "", <<>>)

\* axum: IntoResponse for (StatusCode, &'static str); the &str sets
\* Content-Type: text/plain; charset=utf-8
TextResponse(status, text) ==
    Response(status, Some("text/plain; charset=utf-8"), text, <<>>)

\* axum: IntoResponse for (StatusCode, [(name, value); 1], &'static str); the
\* header array is inserted over the headers of the inner response
TextResponseWithType(status, ctype, text) ==
    [TextResponse(status, text) EXCEPT !.ctype = Some(ctype)]

\* axum: IntoResponse for (StatusCode, [(name, value); 1], Body)
StreamResponse(status, ctype, data) ==
    Response(status, Some(ctype), "", data)

\* a conversion that turns every storage error into NotFound
FromStorageError_not_found(e) == "Storage(NotFound)"

\* impl From<StorageError> for ServerError (#[from])
FromStorageError(e) ==
    CASE e = "NotFound" -> "Storage(NotFound)"
      [] e = "AlreadyExists" -> "Storage(AlreadyExists)"
      [] e = "OperationFailed" -> "Storage(OperationFailed)"

\* impl IntoResponse for ServerError
into_response(e) ==
    LET sm == CASE e = "Storage(NotFound)" ->
                     <<404, "The record was not found">>
                [] e = "Storage(AlreadyExists)" ->
                     <<409, "Cannot override an existing record">>
                [] e = "BadRequest" -> <<400, "Bad request">>
                [] e = "Unauthorized" -> <<401, "Unauthorized">>
                [] OTHER -> <<500, "Internal server error">>
    IN  TextResponseWithType(sm[1], "text/plain", sm[2])

-----------------------------------------------------------------------------
(* server/validation.rs *)

HASH_MAX_LEN == 128

\* a validation that lets every hash through
validate_hash_any(hash) == Ok(TRUE)

validate_hash(hash) ==
    IF is_empty(hash) THEN Err("BadRequest")
    ELSE IF ~ \A i \in 1..Len(hash) :
                 is_alphanumeric(hash[i]) \/ hash[i] = "-" \/ hash[i] = "_"
    THEN Err("BadRequest")
    ELSE IF str_len(hash) > HASH_MAX_LEN THEN Err("BadRequest")
    ELSE Ok(TRUE)

-----------------------------------------------------------------------------
(* server/middleware.rs *)

BEARER == <<"B","e","a","r","e","r"," ">>

\* the token the Authorization header carries: and_then over the header,
\* to_str and strip_prefix("Bearer ")
bearer_token(authorization) ==
    IF authorization = None THEN None
    ELSE LET s == to_str(authorization[1])
         IN  IF s = None THEN None ELSE strip_prefix(s[1], BEARER)

\* the loop over state.storage.tokens(): the configured token that equals
\* the candidate, if any
matched_token(token) ==
    IF \E tv \in tokens : ct_eq(token, tv)
    THEN Some(CHOOSE tv \in tokens : ct_eq(token, tv))
    ELSE None

\* the orders in which state.storage.tokens(), the keys of a HashMap, may
\* be iterated
Orders ==
    {o \in [1..Cardinality(tokens) -> tokens] :
        \A i, j \in DOMAIN o : i # j => o[i] # o[j]}

\* the order the walk is followed in where its length is not looked at
TokenOrder == CHOOSE o \in Orders : TRUE

\* the loop over the tokens in a given order, n comparisons made so far:
\* ct_eq against each token, break at the first that is equal
RECURSIVE walk(_, _, _)
walk(token, order, n) ==
    IF order = <<>> THEN [matched |-> None, comparisons |-> n]
    ELSE IF ct_eq(token, Head(order))
    THEN [matched |-> Some(Head(order)), comparisons |-> n + 1]
    ELSE walk(token, Tail(order), n + 1)

\* auth_middleware: Err(StatusCode::UNAUTHORIZED), or Ok with the
\* AuthenticatedToken extension the request is passed on with
auth_middleware(authorization) ==
    LET token == bearer_token(authorization)
    IN  IF token = None THEN Err(401)
        ELSE LET m == matched_token(token[1])
             IN  IF m = None THEN Err(401) ELSE Ok(m[1])

-----------------------------------------------------------------------------
(* infra/multi_storage.rs *)

\* a router that sends every tenant to the last configured bucket
resolve_storage_last(token) ==
    Ok([storage |-> Buckets[Len(Buckets)].name,
        prefix |-> token_map[token].prefix])

resolve_storage(token) ==
    IF token \notin DOMAIN token_map THEN Err("OperationFailed")
    ELSE IF token_map[token].bucket \notin storages
    THEN Err("OperationFailed")
    ELSE Ok([storage |-> token_map[token].bucket,
             prefix |-> token_map[token].prefix])

\* a key that leaves the prefix out
build_key_no_prefix(prefix, hash) == hash

build_key(prefix, hash) ==
    IF is_empty(prefix) THEN hash ELSE prefix \o <<"/">> \o hash

-----------------------------------------------------------------------------
(* infra/aws.rs: the adapter over the object store.  store[b] is the       *)
(* bucket b, a function from the keys of its objects to their bytes.  The  *)
(* argument up tells whether the backend answers the call: a call it does  *)
(* not answer (network, credentials, 5xx, timeout) is an SDK error.        *)

CHANNEL_CAPACITY == 16

has_object(bucket, key) == key \in DOMAIN store[bucket]

\* a put that keeps the object a key already holds
with_object_keep(objects, key, bytes) ==
    [k \in DOMAIN objects \cup {key} |->
        IF k \in DOMAIN objects THEN objects[k] ELSE bytes]

\* what put_object leaves in the bucket
with_object(objects, key, bytes) ==
    [k \in DOMAIN objects \cup {key} |-> IF k = key THEN bytes ELSE objects[k]]

\* an exists that reports every object the backend answers for as missing
S3_exists_missing(bucket, key, up) ==
    IF ~up THEN Err("OperationFailed") ELSE Ok(FALSE)

\* S3Storage::exists: head_object
S3_exists(bucket, key, up) ==
    IF ~up THEN Err("OperationFailed")
    ELSE IF has_object(bucket, key) THEN Ok(TRUE)
    ELSE Ok(FALSE)

\* a head of store that goes on whatever exists found
S3_store_head_blind(found) ==
    IF ~found.ok THEN Err(found.err) ELSE Ok(TRUE)

\* S3Storage::store, the head: if self.exists(hash).await? { return
\* Err(StorageError::AlreadyExists) }
S3_store_head(found) ==
    IF ~found.ok THEN Err(found.err)
    ELSE IF found.val THEN Err("AlreadyExists")
    ELSE Ok(TRUE)

\* S3Storage::store, the body: the spawned task sends the chunks of the
\* reader stream into the mpsc channel while it has room, the body the SDK
\* polls receives them in order; what the backend has received when both end
RECURSIVE forward_stream(_, _, _)
forward_stream(data, channel, received) ==
    IF data = <<>> /\ channel = <<>> THEN received
    ELSE IF data # <<>> /\ Len(channel) < CHANNEL_CAPACITY
    THEN forward_stream(Tail(data), Append(channel, Head(data)), received)
    ELSE forward_stream(data, Tail(channel), Append(received, Head(channel)))

\* the bytes of a sequence of chunks
RECURSIVE concat(_)
concat(chunks) == IF chunks = <<>> THEN <<>> ELSE Head(chunks) \o concat(Tail(chunks))

\* a retrieve that reports a missing key as a failed operation
S3_retrieve_failed(bucket, key, up) ==
    IF ~up \/ ~has_object(bucket, key) THEN Err("OperationFailed")
    ELSE Ok(store[bucket][key])

\* S3Storage::retrieve: get_object
S3_retrieve(bucket, key, up) ==
    IF ~up THEN Err("OperationFailed")
    ELSE IF ~has_object(bucket, key) THEN Err("NotFound")
    ELSE Ok(store[bucket][key])

-----------------------------------------------------------------------------
(* Connections: the requests in flight, and what the model remembers of   *)
(* each: ackedBefore, the PUTs for the same hash (of acked, see below)     *)
(* that were answered with success before it arrived; existedBefore,       *)
(* whether its object existed when it arrived; backendUp, whether the      *)
(* backend answered all its calls; wrote, whether its put_object was       *)
(* carried out; comparisons, the tokens the middleware compared its token *)
(* with; calls, the backend calls it issued, in their order.  acked holds  *)
(* <<token, hash, bytes>> of every PUT answered with success, written      *)
(* <<token, hash>> of every put_object carried out.  pc is the call the    *)
(* request is about to make: "exists" (the handler's exists_with_token),   *)
(* "store" (the adapter's own exists at the head of store), "put"          *)
(* (put_object), "get"                                                     *)
(* (get_object), "respond" (the response is ready), "done" (the client has *)
(* the response).                                                          *)

Conns == {"c1", "c2"}

Idle ==
    [pc |-> "idle", method |-> "-", auth |-> None, hash |-> <<>>,
     body |-> <<>>, token |-> None, resp |-> StatusCodeResponse(0),
     ackedBefore |-> {}, existedBefore |-> FALSE, backendUp |-> TRUE,
     wrote |-> FALSE, comparisons |-> 0, calls |-> <<>>,
     length |-> None, content_length |-> None, silent |-> FALSE,
     disconnected |-> FALSE]

\* the bucket and key a token and a hash address
Target(token, hash) ==
    LET r == resolve_storage(token)
    IN  [bucket |-> r.val.storage, key |-> build_key(r.val.prefix, hash)]

Lookup(objects, token, hash) ==
    LET t == Target(token, hash)
    IN  IF t.key \in DOMAIN objects[t.bucket]
        THEN Some(objects[t.bucket][t.key]) ELSE None

\* the request's calls so far and one more: op on the bucket and key the
\* router resolved, and what the adapter returned
Called(c, op, result) ==
    LET t == Target(conn[c].token[1], conn[c].hash)
    IN  Append(conn[c].calls,
               [op |-> op, bucket |-> t.bucket, key |-> t.key,
                result |-> result])

Finish(c, response, calls) ==
    conn' = [conn EXCEPT ![c].pc = "respond", ![c].resp = response,
                         ![c].calls = calls]

FinishFailed(c, response, calls) ==
    conn' = [conn EXCEPT ![c].pc = "respond", ![c].resp = response,
                         ![c].backendUp = FALSE, ![c].calls = calls]

\* a router that sends every method to store_artifact
route_put(method) == "exists"

\* create_router: put(store_artifact) and get(retrieve_artifact) on
\* /v1/cache/{hash}; the handler's first storage call
route(method) == IF method = "PUT" THEN "exists" ELSE "get"

\* a call that waits for its answer for ever
send_outcomes_unbounded(silent) == IF silent THEN {} ELSE BOOLEAN

\* the ways one call of the S3 client ends, the client being built with an
\* operation_timeout: the backend answers (TRUE), or the call fails (FALSE);
\* on a backend that stays silent the timeout ends the call, with an error
send_outcomes(silent) == IF silent THEN {FALSE} ELSE BOOLEAN

\* u64::from_str on a string of fewer than 20 characters: an optional "+",
\* then decimal digits, at least one
digit_value(c) ==
    CHOOSE n \in 0..9 : <<"0","1","2","3","4","5","6","7","8","9">>[n + 1] = c

RECURSIVE decimal(_)
decimal(d) ==
    IF d = <<>> THEN 0
    ELSE 10 * decimal(SubSeq(d, 1, Len(d) - 1)) + digit_value(d[Len(d)])

parse_u64(s) ==
    LET d == IF s # <<>> /\ Head(s) = "+" THEN Tail(s) ELSE s
    IN  IF d = <<>> \/ \E i \in 1..Len(d) : d[i] \notin AsciiDigits
        THEN None
        ELSE Some(decimal(d))

\* store_artifact: the Content-Length header, if it is there, is text and
\* parses as a u64
content_length(header) ==
    IF header = None THEN None
    ELSE IF to_str(header[1]) = None THEN None
    ELSE parse_u64(to_str(header[1])[1])

\* a body cut to, or without, its announced length
body_sent_sized(data, length) ==
    IF length = None THEN <<>>
    ELSE SubSeq(concat(data), 1, length[1])

\* the bytes put_object sends: the whole stream, whatever length the handler
\* passed along
body_sent(data, length) == concat(forward_stream(data, <<>>, <<>>))

\* A request arrives: the middleware, then the head of the handler up to its
\* first storage call (validate_hash, the AuthenticatedToken extension).
Start(c, methods, auths, hashes, bodies, max, orders, lengths, silents) ==
    /\ boot.pc = "serving"
    /\ conn[c].pc \in {"idle", "done"}
    /\ started < max
    /\ started' = started + 1
    /\ \E method \in methods, auth \in auths, hash \in hashes :
       \E body \in IF method = "PUT" THEN bodies ELSE {<<>>} :
       \E order \in orders :
       \E length \in IF method = "PUT" THEN lengths[body] ELSE {None} :
       \E silent \in silents :
        LET mw == auth_middleware(auth)
            candidate == bearer_token(auth)
            req == [Idle EXCEPT !.method = method, !.auth = auth,
                                !.hash = hash, !.body = body,
                                !.length = length, !.silent = silent,
                                !.comparisons =
                                   IF candidate = None THEN 0
                                   ELSE walk(candidate[1], order, 0).comparisons]
            valid == validate_hash(hash)
            extension == IF mw.ok THEN Some(mw.val) ELSE None
        IN  IF ~mw.ok
               THEN conn' = [conn EXCEPT ![c] =
                       [req EXCEPT !.pc = "respond",
                                   !.resp = StatusCodeResponse(mw.err)]]
               ELSE IF ~valid.ok
               THEN conn' = [conn EXCEPT ![c] =
                       [req EXCEPT !.pc = "respond",
                                   !.resp = into_response(valid.err)]]
               ELSE IF extension = None
               THEN conn' = [conn EXCEPT ![c] =
                       [req EXCEPT !.pc = "respond",
                                   !.resp = into_response("Unauthorized")]]
               ELSE conn' = [conn EXCEPT ![c] =
                       [req EXCEPT
                          !.pc = route(method),
                          !.token = extension,
                          !.content_length =
                             IF method = "PUT" THEN content_length(length)
                             ELSE None,
                          !.ackedBefore = {a \in acked : a[2] = hash},
                          !.existedBefore =
                             Lookup(store, extension[1], hash) # None]]
    /\ UNCHANGED <<store, acked, written, boot, stream, pure>>

\* store_artifact: state.storage.exists_with_token(..).await?, and the 409
HandlerExists(c) ==
    /\ conn[c].pc = "exists"
    /\ \E up \in send_outcomes(conn[c].silent) :
        LET r == resolve_storage(conn[c].token[1])
            found == IF r.ok
                     THEN S3_exists(r.val.storage,
                                    build_key(r.val.prefix, conn[c].hash), up)
                     ELSE Err(r.err)
            calls == IF r.ok THEN Called(c, "exists", found) ELSE conn[c].calls
        IN  IF ~found.ok
            THEN FinishFailed(c, into_response(FromStorageError(found.err)),
                              calls)
            ELSE IF found.val
            THEN Finish(c, TextResponse(409, "Cannot override an existing record"),
                        calls)
            ELSE conn' = [conn EXCEPT ![c].pc = "store", ![c].calls = calls]
    /\ UNCHANGED <<store, started, acked, written, boot, stream, pure>>

\* store_with_token and the head of S3Storage::store: self.exists(hash).await?
AdapterExists(c) ==
    /\ conn[c].pc = "store"
    /\ \E up \in send_outcomes(conn[c].silent) :
        LET r == resolve_storage(conn[c].token[1])
            found == IF r.ok
                     THEN S3_exists(r.val.storage,
                                    build_key(r.val.prefix, conn[c].hash), up)
                     ELSE Err(r.err)
            calls == IF r.ok THEN Called(c, "exists", found) ELSE conn[c].calls
            head == S3_store_head(found)
        IN  IF ~found.ok
            THEN FinishFailed(c, into_response(FromStorageError(head.err)),
                              calls)
            ELSE IF ~head.ok
            THEN Finish(c, into_response(FromStorageError(head.err)), calls)
            ELSE conn' = [conn EXCEPT ![c].pc = "put", ![c].calls = calls]
    /\ UNCHANGED <<store, started, acked, written, boot, stream, pure>>

\* the rest of S3Storage::store: put_object with the streamed body, and the
\* handler's answer
PutObject(c) ==
    /\ conn[c].pc = "put"
    /\ \E up \in send_outcomes(conn[c].silent) :
        LET t == Target(conn[c].token[1], conn[c].hash)
            bytes == body_sent(conn[c].body, conn[c].content_length)
        IN  IF ~up
            THEN /\ FinishFailed(c,
                       into_response(FromStorageError("OperationFailed")),
                       Called(c, "put", Err("OperationFailed")))
                 /\ UNCHANGED <<store, written>>
            ELSE /\ store' = [store EXCEPT ![t.bucket] =
                                 with_object(@, t.key, bytes)]
                 /\ written' = written \cup {<<conn[c].token[1], conn[c].hash>>}
                 /\ conn' = [conn EXCEPT ![c].pc = "respond",
                                         ![c].resp = TextResponse(202, ""),
                                         ![c].wrote = TRUE,
                                         ![c].calls = Called(c, "put", Ok(TRUE))]
    /\ UNCHANGED <<started, acked, boot, stream, pure>>

\* retrieve_artifact: retrieve_with_token(..).await?, and the streamed answer
GetObject(c) ==
    /\ conn[c].pc = "get"
    /\ \E up \in send_outcomes(conn[c].silent) :
        LET r == resolve_storage(conn[c].token[1])
            reader == IF r.ok
                      THEN S3_retrieve(r.val.storage,
                                       build_key(r.val.prefix, conn[c].hash), up)
                      ELSE Err(r.err)
            calls == IF r.ok THEN Called(c, "get", reader) ELSE conn[c].calls
        IN  IF ~reader.ok
            THEN IF reader.err = "NotFound"
                 THEN Finish(c, into_response(FromStorageError(reader.err)),
                             calls)
                 ELSE FinishFailed(c, into_response(FromStorageError(reader.err)),
                                   calls)
            ELSE Finish(c, StreamResponse(200, "application/octet-stream",
                                          reader.val), calls)
    /\ UNCHANGED <<store, started, acked, written, boot, stream, pure>>

\* the response reaches the client
Respond(c) ==
    /\ conn[c].pc = "respond"
    /\ conn' = [conn EXCEPT ![c].pc = "done"]
    /\ acked' = IF /\ conn[c].method = "PUT"
                   /\ conn[c].resp.status \in 200..299
                THEN acked \cup {<<conn[c].token[1], conn[c].hash,
                                  concat(conn[c].body)>>}
                ELSE acked
    /\ UNCHANGED <<store, started, written, boot, stream, pure>>

-----------------------------------------------------------------------------
(* The requests the clients send *)

Methods == {"PUT", "GET"}

H1 == <<"h","1">>

BadHash == <<"a","@">>

Authorization(token) == Some(BEARER \o token)

\* bodies as the chunks the request stream yields
Body1 == << <<1>> >>

Body2 == << <<2>>, <<3>> >>

AuthMain == {None, Authorization(TokA), Authorization(TokB)}

HashMain == {H1, BadHash}

BodyMain == {Body1, Body2}

\* no Content-Length header
NoContentLength == [b \in BodyMain \cup {<<>>} |-> {None}]

\* headers: absent, other schemes, wrong case, no space, an unknown token,
\* an empty token, a token with a suffix, a header that is not ASCII
AuthSeq ==
    { None,
      Authorization(TokA),
      Authorization(TokC),
      Authorization(<<"t","X">>),
      Authorization(<<>>),
      Authorization(TokA \o <<" ">>),
      Authorization(TokA \o <<"U+00E9">>),
      Some(<<"B","a","s","i","c"," ">> \o TokA),
      Some(<<"b","e","a","r","e","r"," ">> \o TokA),
      Some(<<"B","e","a","r","e","r">> \o TokA),
      Some(TokA) }

\* hashes: of every character class, empty, and around the length limit
HashSeq ==
    { H1,
      <<>>,
      BadHash,
      <<"a","-","_","Z","9">>,
      <<"a","/","b">>,
      <<"a"," ">>,
      <<"U+00E9">>,
      <<"h","U+0663">>,
      <<"U+20AC">>,
      Repeat("a", HASH_MAX_LEN - 1),
      Repeat("a", HASH_MAX_LEN),
      Repeat("a", HASH_MAX_LEN + 1),
      Repeat("U+00E9", HASH_MAX_LEN \div 2),
      Repeat("U+00E9", HASH_MAX_LEN \div 2 + 1) }

BodySeq == {Body2}

-----------------------------------------------------------------------------
(* server/mod.rs, the public route *)

\* a router with every route behind the layer
protected_all(path) == TRUE

\* create_router: the routes built before route_layer(auth_middleware) are
\* behind the middleware, /health is added to the outer router
protected(path) == path = "/v1/cache/{hash}"

\* health_check
health_check == TextResponse(200, "OK")

\* GET /health: the route, and the handler, which takes no state and no
\* extension
Health(c) ==
    /\ boot.pc = "serving"
    /\ conn[c].pc \in {"idle", "done"}
    /\ started < MaxRequests
    /\ started' = started + 1
    /\ \E auth \in {None, Authorization(TokA), Authorization(<<"t","X">>)} :
        LET mw == IF protected("/health") THEN auth_middleware(auth)
                  ELSE Ok(None)
            req == [Idle EXCEPT !.method = "HEALTH", !.auth = auth]
        IN  conn' = [conn EXCEPT ![c] =
                [req EXCEPT !.pc = "respond",
                            !.resp = IF mw.ok THEN health_check
                                     ELSE StatusCodeResponse(mw.err)]]
    /\ UNCHANGED <<store, acked, written, boot, stream, pure>>

-----------------------------------------------------------------------------
(* bin/server.rs: startup.  boot.pc is the step main is at: "from_config"  *)
(* (an S3Storage is created per configured bucket, in their order),        *)
(* "test_all_buckets" (each storage is pinged), "bind" (run_server binds   *)
(* the listener), "serving", or "exit" (std::process::exit(1)).  created   *)
(* are the buckets with a storage, tested those whose test_connection      *)
(* returned Ok, answered those whose backend answered the ping.            *)

Serving ==
    [pc |-> "serving", created |-> storages, tested |-> storages,
     answered |-> storages, token_map |-> token_map]

Booting ==
    [pc |-> "from_config", created |-> {}, tested |-> {}, answered |-> {},
     token_map |-> <<>>]

\* a test_connection that takes a ping the backend did not answer for good
test_connection_ignored(up) == Ok(TRUE)

\* S3Storage::test_connection: list_objects_v2 with max_keys 1
test_connection(up) == IF up THEN Ok(TRUE) ELSE Err("OperationFailed")

\* S3Storage::from_resolved_bucket: the client is built from the bucket's
\* configuration, or the build fails
from_resolved_bucket(bucket, ok) ==
    IF ok THEN Ok(bucket.name) ELSE Err("OperationFailed")

\* MultiStorageRouter::from_config: the next turn of the loop over
\* config.buckets, after the last one the token map, and main's exit when
\* it fails
FromConfig ==
    /\ boot.pc = "from_config"
    /\ LET i == Cardinality(boot.created) + 1
       IN  \E ok \in BOOLEAN :
            LET r == from_resolved_bucket(Buckets[i], ok)
            IN  IF ~r.ok THEN boot' = [boot EXCEPT !.pc = "exit"]
                ELSE boot' = [boot EXCEPT
                        !.created = @ \cup {r.val},
                        !.token_map =
                            IF i = Len(Buckets)
                            THEN build_token_registry(ServiceAccessTokens)
                            ELSE @,
                        !.pc = IF i = Len(Buckets) THEN "test_all_buckets"
                               ELSE "from_config"]
    /\ UNCHANGED <<store, conn, started, acked, written, stream, pure>>

\* MultiStorageRouter::test_all_buckets: the next turn of the loop over the
\* storages (a HashMap, in any order), and main's exit when it fails
TestAllBuckets ==
    /\ boot.pc = "test_all_buckets"
    /\ \E b \in boot.created \ boot.tested : \E up \in BOOLEAN :
        LET r == test_connection(up)
        IN  IF ~r.ok THEN boot' = [boot EXCEPT !.pc = "exit"]
            ELSE boot' = [boot EXCEPT
                    !.tested = @ \cup {b},
                    !.answered = IF up THEN @ \cup {b} ELSE @,
                    !.pc = IF boot.tested \cup {b} = boot.created
                           THEN "bind" ELSE "test_all_buckets"]
    /\ UNCHANGED <<store, conn, started, acked, written, stream, pure>>

\* run_server: TcpListener::bind(..).await?, then axum::serve
Bind ==
    /\ boot.pc = "bind"
    /\ \E ok \in BOOLEAN :
        boot' = [boot EXCEPT !.pc = IF ok THEN "serving" ELSE "exit"]
    /\ UNCHANGED <<store, conn, started, acked, written, stream, pure>>

-----------------------------------------------------------------------------
(* The body of one request through an adapter, chunk by chunk.  stream.op  *)
(* is "store" or "retrieve", data the chunks the source has not yielded    *)
(* yet (the request body for store, the object for retrieve), hand the     *)
(* chunk a task holds, channel the mpsc channel of S3Storage::store,       *)
(* buffer the Vec of MinioStorage, received what the destination got (the  *)
(* backend for store, the client for retrieve), handed whether the whole   *)
(* buffer was handed over.                                                 *)

\* chunks of the longest body
MaxChunks == 18

NoStream ==
    [adapter |-> "-", op |-> "-", data |-> <<>>, hand |-> <<>>,
     channel |-> <<>>, buffer |-> <<>>, received |-> <<>>, handed |-> FALSE,
     failing |-> FALSE, result |-> None, resp |-> None]

\* a body of n chunks
Chunks(n) == [i \in 1..n |-> <<i>>]

\* the item Err(io::Error) of a body stream, written as a chunk that no body
\* holds; the stream ends after it
StreamError == <<-1>>

\* a mapping to frames that turns the error into an empty frame
frame_ok(item) == IF item = StreamError THEN <<>> ELSE item

\* S3Storage::store, frame_stream: a chunk becomes a data frame, an error a
\* boxed error
frame(item) == item

Adapters == {"s3", "minio"}

\* the chunks the server holds in memory
Held == Len(stream.hand) + Len(stream.channel) + Len(stream.buffer)

\* S3Storage::store, the spawned task: data.next().await; and
\* S3Storage::retrieve, ReaderStream over into_async_read: the next chunk
StreamRead ==
    /\ stream.adapter = "s3"
    /\ stream.data # <<>> /\ stream.hand = <<>>
    /\ stream' = [stream EXCEPT !.hand = <<Head(stream.data)>>,
                                !.data = Tail(stream.data)]
    /\ UNCHANGED <<store, conn, started, acked, written, boot, pure>>

\* S3Storage::store, the spawned task: tx.send(result).await, which waits
\* while the channel is full
ChannelSend ==
    /\ stream.adapter = "s3" /\ stream.op = "store"
    /\ stream.hand # <<>> /\ Len(stream.channel) < CHANNEL_CAPACITY
    /\ stream' = [stream EXCEPT !.channel = Append(@, stream.hand[1]),
                                !.hand = <<>>]
    /\ UNCHANGED <<store, conn, started, acked, written, boot, pure>>

\* S3Storage::store: put_object polls the body, a frame leaves for the
\* backend; an error ends put_object, which is mapped to OperationFailed
BodyPoll ==
    /\ stream.adapter = "s3" /\ stream.op = "store"
    /\ stream.channel # <<>> /\ stream.result = None
    /\ LET f == frame(Head(stream.channel))
       IN  IF f = StreamError
           THEN stream' = [stream EXCEPT
                              !.channel = <<>>,
                              !.result = Some(Err("OperationFailed"))]
           ELSE stream' = [stream EXCEPT !.received = Append(@, f),
                                         !.channel = Tail(stream.channel)]
    /\ UNCHANGED <<store, conn, started, acked, written, boot, pure>>

\* retrieve_artifact: Body::from_stream, the chunk leaves for the client
StreamDeliver ==
    /\ stream.adapter = "s3" /\ stream.op = "retrieve"
    /\ stream.hand # <<>>
    /\ stream' = [stream EXCEPT !.received = Append(@, stream.hand[1]),
                                !.hand = <<>>]
    /\ UNCHANGED <<store, conn, started, acked, written, boot, pure>>

\* MinioStorage::store: the loop, buffer.extend_from_slice(&bytes), or
\* return Err(OperationFailed) on an error of the stream
MinioBuffer ==
    /\ stream.adapter = "minio" /\ stream.op = "store"
    /\ stream.data # <<>>
    /\ IF Head(stream.data) = StreamError
       THEN stream' = [stream EXCEPT
                          !.data = <<>>, !.buffer = <<>>,
                          !.result = Some(Err("OperationFailed"))]
       ELSE stream' = [stream EXCEPT !.buffer = Append(@, Head(stream.data)),
                                     !.data = Tail(stream.data)]
    /\ UNCHANGED <<store, conn, started, acked, written, boot, pure>>

\* MinioStorage::store: put_object_content with the whole buffer
MinioPut ==
    /\ stream.adapter = "minio" /\ stream.op = "store"
    /\ stream.data = <<>> /\ ~stream.handed /\ stream.result = None
    /\ stream' = [stream EXCEPT !.received = stream.buffer,
                                !.buffer = <<>>, !.handed = TRUE]
    /\ UNCHANGED <<store, conn, started, acked, written, boot, pure>>

\* store returns Ok(()): put_object has sent the whole body
StoreReturns ==
    /\ stream.op = "store" /\ stream.result = None
    /\ stream.data = <<>>
    /\ \/ stream.adapter = "s3" /\ stream.hand = <<>> /\ stream.channel = <<>>
       \/ stream.adapter = "minio" /\ stream.handed
    /\ stream' = [stream EXCEPT !.result = Some(Ok(TRUE))]
    /\ UNCHANGED <<store, conn, started, acked, written, boot, pure>>

\* store_artifact: store_with_token(..).await?, then (ACCEPTED, "")
StoreAnswered ==
    /\ stream.op = "store" /\ stream.result # None /\ stream.resp = None
    /\ stream' = [stream EXCEPT !.resp = Some(
                    IF stream.result[1].ok THEN TextResponse(202, "")
                    ELSE into_response(FromStorageError(stream.result[1].err)))]
    /\ UNCHANGED <<store, conn, started, acked, written, boot, pure>>

\* MinioStorage::retrieve: to_segmented_bytes().await collects the content
MinioCollect ==
    /\ stream.adapter = "minio" /\ stream.op = "retrieve"
    /\ stream.data # <<>>
    /\ stream' = [stream EXCEPT !.buffer = Append(@, Head(stream.data)),
                                !.data = Tail(stream.data)]
    /\ UNCHANGED <<store, conn, started, acked, written, boot, pure>>

\* MinioStorage::retrieve: Cursor::new(bytes.to_vec()) is returned
MinioCursor ==
    /\ stream.adapter = "minio" /\ stream.op = "retrieve"
    /\ stream.data = <<>> /\ ~stream.handed
    /\ stream' = [stream EXCEPT !.handed = TRUE]
    /\ UNCHANGED <<store, conn, started, acked, written, boot, pure>>

\* retrieve_artifact: Body::from_stream over the Cursor
MinioDeliver ==
    /\ stream.adapter = "minio" /\ stream.op = "retrieve"
    /\ stream.handed /\ stream.buffer # <<>>
    /\ stream' = [stream EXCEPT !.received = Append(@, Head(stream.buffer)),
                                !.buffer = Tail(stream.buffer)]
    /\ UNCHANGED <<store, conn, started, acked, written, boot, pure>>

-----------------------------------------------------------------------------
(* domain/yaml_config.rs.  pure is a call of one of its functions: fn the  *)
(* function, input its argument, output its result once it returned,       *)
(* resolved the result of resolve_env_vars once main called it.            *)

\* characters of the longest prefix
MaxPrefixLen == 4

NoCall == [fn |-> "-", input |-> <<>>, output |-> None, resolved |-> None]

\* str::trim_start, str::trim_end, str::trim: White_Space is removed
RECURSIVE trim_start(_)
trim_start(s) ==
    IF s # <<>> /\ Head(s) = " " THEN trim_start(Tail(s)) ELSE s

RECURSIVE trim_end(_)
trim_end(s) ==
    IF s # <<>> /\ s[Len(s)] = " " THEN trim_end(SubSeq(s, 1, Len(s) - 1))
    ELSE s

trim(s) == trim_end(trim_start(s))

\* str::starts_with(char), str::ends_with(char), String::pop
starts_with(s, c) == s # <<>> /\ Head(s) = c

ends_with(s, c) == s # <<>> /\ s[Len(s)] = c

pop(s) == SubSeq(s, 1, Len(s) - 1)

\* YamlConfig::normalize_prefix
normalize_prefix(prefix) ==
    LET trimmed == trim(prefix)
    IN  IF is_empty(trimmed) THEN <<>>
        ELSE LET normalized == IF ~starts_with(trimmed, "/")
                               THEN <<"/">> \o trimmed
                               ELSE trimmed
             IN  IF str_len(normalized) > 1 /\ ends_with(normalized, "/")
                 THEN pop(normalized)
                 ELSE normalized

\* the strings over cs of length n, and up to n
RECURSIVE StringsOfLen(_, _)
StringsOfLen(cs, n) ==
    IF n = 0 THEN {<<>>}
    ELSE {<<c>> \o t : c \in cs, t \in StringsOfLen(cs, n - 1)}

StringsUpTo(cs, n) == UNION {StringsOfLen(cs, k) : k \in 0..n}

\* the prefixes of the configuration file
PrefixInputs == StringsUpTo({"/", "c", " "}, MaxPrefixLen)

\* buckets and service tokens of the longest configuration file
MaxConfigLen == 2

\* the first turns of the loop over self.buckets from turn i on; names is
\* the HashSet bucket_names
RECURSIVE validate_buckets(_, _, _)
validate_buckets(buckets, i, names) ==
    IF i > Len(buckets) THEN Ok(names)
    ELSE IF buckets[i].name = "" THEN Err("Validation")
    ELSE IF buckets[i].bucket_name = "" THEN Err("Validation")
    ELSE IF buckets[i].name \in names THEN Err("Validation")
    ELSE validate_buckets(buckets, i + 1, names \cup {buckets[i].name})

\* a loop over the service tokens that does not look their bucket up
RECURSIVE validate_tokens_any_bucket(_, _, _, _)
validate_tokens_any_bucket(list, i, names, bucket_names) ==
    IF i > Len(list) THEN Ok(names)
    ELSE IF list[i].name = "" THEN Err("Validation")
    ELSE IF list[i].name \in names THEN Err("Validation")
    ELSE IF list[i].access_token = None /\ list[i].access_token_env = None
    THEN Err("Validation")
    ELSE validate_tokens_any_bucket(list, i + 1, names \cup {list[i].name},
                                    bucket_names)

\* the loop over self.service_access_tokens from turn i on; names is the
\* HashSet token_names
RECURSIVE validate_tokens(_, _, _, _)
validate_tokens(list, i, names, bucket_names) ==
    IF i > Len(list) THEN Ok(names)
    ELSE IF list[i].name = "" THEN Err("Validation")
    ELSE IF list[i].name \in names THEN Err("Validation")
    ELSE IF list[i].bucket \notin bucket_names THEN Err("Validation")
    ELSE IF list[i].access_token = None /\ list[i].access_token_env = None
    THEN Err("Validation")
    ELSE validate_tokens(list, i + 1, names \cup {list[i].name}, bucket_names)

\* YamlConfig::validate
validate(config) ==
    IF config.buckets = <<>> THEN Err("Validation")
    ELSE LET b == validate_buckets(config.buckets, 1, {})
         IN  IF ~b.ok THEN b
             ELSE IF config.service_access_tokens = <<>>
             THEN Err("Validation")
             ELSE LET t == validate_tokens(config.service_access_tokens,
                                           1, {}, b.val)
                  IN  IF ~t.ok THEN t
                      ELSE IF config.port = 0 THEN Err("Validation")
                      ELSE Ok(TRUE)

\* YamlConfig::resolve_required_env; set tells whether the environment
\* variable named is set
resolve_required_env(value, env_var, set) ==
    IF value # None THEN Ok(value[1])
    ELSE IF env_var # None
    THEN IF set THEN Ok(<<"e">>) ELSE Err("EnvVarNotFound")
    ELSE Err("Validation")

\* YamlConfig::resolve_env_vars, the service tokens
resolve_env_vars(config, set) ==
    LET list == config.service_access_tokens
        tok(i) == resolve_required_env(list[i].access_token,
                                       list[i].access_token_env, set)
    IN  IF \E i \in DOMAIN list : ~tok(i).ok
        THEN Err(tok(CHOOSE i \in DOMAIN list :
                        /\ ~tok(i).ok
                        /\ \A j \in 1..(i - 1) : tok(j).ok).err)
        ELSE Ok([buckets |-> [i \in DOMAIN config.buckets |->
                                 [name |-> config.buckets[i].name]],
                 service_access_tokens |->
                    [i \in DOMAIN list |->
                        [name |-> list[i].name, bucket |-> list[i].bucket,
                         prefix |-> normalize_prefix(list[i].prefix),
                         access_token |-> tok(i).val]],
                 port |-> config.port])

\* the sequences over a set of length up to n
RECURSIVE SeqsOfLen(_, _)
SeqsOfLen(S, n) ==
    IF n = 0 THEN {<<>>}
    ELSE {<<x>> \o t : x \in S, t \in SeqsOfLen(S, n - 1)}

SeqsUpTo(S, n) == UNION {SeqsOfLen(S, k) : k \in 0..n}

\* the buckets and service tokens a configuration file may list
BucketConfigs ==
    {[name |-> n, bucket_name |-> "x"] : n \in {"", "b1", "b2"}}
       \cup {[name |-> "b1", bucket_name |-> ""]}

ServiceAccessTokenConfigs ==
    {[name |-> n, bucket |-> b, prefix |-> <<"c">>,
      access_token |-> Some(TokA), access_token_env |-> None] :
        n \in {"", "t1", "t2"}, b \in {"b1", "b3"}}
       \cup {[name |-> "t1", bucket |-> "b1", prefix |-> <<>>,
              access_token |-> None, access_token_env |-> None],
             [name |-> "t2", bucket |-> "b1", prefix |-> <<"/">>,
              access_token |-> None, access_token_env |-> Some("TOKEN")]}

YamlConfigs ==
    {[buckets |-> b, service_access_tokens |-> t, port |-> p] :
        b \in SeqsUpTo(BucketConfigs, MaxConfigLen),
        t \in SeqsUpTo(ServiceAccessTokenConfigs, MaxConfigLen),
        p \in {0, 3000}}

\* YamlConfig::from_file: config.validate()?
FromFile ==
    /\ pure.fn = "validate" /\ pure.output = None
    /\ pure' = [pure EXCEPT !.output = Some(validate(pure.input))]
    /\ UNCHANGED <<store, conn, started, acked, written, boot, stream>>

\* main: yaml_config.resolve_env_vars(), reached when from_file returned Ok
ResolveEnvVars ==
    /\ pure.fn = "validate" /\ pure.output # None /\ pure.resolved = None
    /\ pure.output[1].ok
    /\ \E set \in BOOLEAN :
        pure' = [pure EXCEPT !.resolved =
                    Some(resolve_env_vars(pure.input, set))]
    /\ UNCHANGED <<store, conn, started, acked, written, boot, stream>>

\* resolve_env_vars: prefix: Self::normalize_prefix(&token.prefix)
NormalizePrefix ==
    /\ pure.fn = "normalize_prefix" /\ pure.output = None
    /\ pure' = [pure EXCEPT !.output = Some(normalize_prefix(pure.input))]
    /\ UNCHANGED <<store, conn, started, acked, written, boot, stream>>

-----------------------------------------------------------------------------
(* domain/config.rs: the TokenRegistry.  A HashMap is a function over the  *)
(* keys inserted so far.                                                   *)

\* entries of the longest list of raw tokens
MaxRawTokens == 3

\* str::split_once('='): the parts around the first "=", if there is one
split_once(s, c) ==
    IF \E i \in 1..Len(s) : s[i] = c
    THEN LET i == CHOOSE i \in 1..Len(s) :
                     s[i] = c /\ \A j \in 1..(i - 1) : s[j] # c
         IN  Some(<<SubSeq(s, 1, i - 1), SubSeq(s, i + 1, Len(s))>>)
    ELSE None

\* Display for an integer: the decimal digits
RECURSIVE to_string(_)
to_string(n) ==
    LET digit == <<"0","1","2","3","4","5","6","7","8","9">>[(n % 10) + 1]
    IN  IF n < 10 THEN <<digit>> ELSE to_string(n \div 10) \o <<digit>>

\* HashMap::insert
insert(map, k, v) ==
    [x \in DOMAIN map \cup {k} |-> IF x = k THEN v ELSE map[x]]

\* a name that does not count the entries
unnamed_name_default(unnamed_counter) == <<"d","e","f","a","u","l","t">>

\* the name of an entry without "="
unnamed_name(unnamed_counter) ==
    IF unnamed_counter = 1 THEN <<"d","e","f","a","u","l","t">>
    ELSE <<"t","o","k","e","n","-">> \o to_string(unnamed_counter)

\* TokenRegistry::from_strings, the loop from entry i on
RECURSIVE from_strings_loop(_, _, _, _, _)
from_strings_loop(raw_tokens, i, tokens_map, reverse, unnamed_counter) ==
    IF i > Len(raw_tokens)
    THEN IF DOMAIN tokens_map = {} THEN Err("MissingField(SERVICE_ACCESS_TOKEN)")
         ELSE Ok([tokens |-> tokens_map, reverse |-> reverse])
    ELSE LET raw == trim(raw_tokens[i])
             parts == split_once(raw, "=")
         IN  IF is_empty(raw)
             THEN from_strings_loop(raw_tokens, i + 1, tokens_map, reverse,
                                    unnamed_counter)
             ELSE IF parts # None
             THEN LET name == trim(parts[1][1])
                      token == trim(parts[1][2])
                  IN  IF is_empty(name) \/ is_empty(token)
                      THEN Err("Invalid")
                      ELSE from_strings_loop(raw_tokens, i + 1,
                              insert(tokens_map, name, token),
                              insert(reverse, token, name), unnamed_counter)
             ELSE from_strings_loop(raw_tokens, i + 1,
                     insert(tokens_map, unnamed_name(unnamed_counter), raw),
                     insert(reverse, raw, unnamed_name(unnamed_counter)),
                     unnamed_counter + 1)

\* TokenRegistry::from_strings
from_strings(raw_tokens) == from_strings_loop(raw_tokens, 1, <<>>, <<>>, 1)

\* TokenRegistry::find_token_name
find_token_name(registry, token) ==
    IF token \in DOMAIN registry.reverse THEN Some(registry.reverse[token])
    ELSE None

\* the entries of --service-access-token
RawTokens ==
    { <<>>, <<" ">>, <<"a">>, <<" ","b"," ">>, <<"c">>,
      <<"n","=","a">>, <<" ","m"," ","="," ","b"," ">>, <<"n","=","c">>,
      <<"=","a">>, <<"n","=">>, <<" ","="," ">>, <<"n","=","=","a">> }

\* the strings looked up
Candidates == { <<"a">>, <<"b">>, <<"c">>, <<"=","a">>, <<"n">>, <<>> }

\* ServerConfig::validate: TokenRegistry::from_strings
FromStrings ==
    /\ pure.fn = "from_strings" /\ pure.output = None
    /\ pure' = [pure EXCEPT !.output = Some(from_strings(pure.input))]
    /\ UNCHANGED <<store, conn, started, acked, written, boot, stream>>

\* a lookup in the registry built; resolved keeps the string and the answer
FindTokenName ==
    /\ pure.fn = "from_strings" /\ pure.output # None /\ pure.resolved = None
    /\ pure.output[1].ok
    /\ \E token \in Candidates :
        pure' = [pure EXCEPT !.resolved =
                    Some(<<token, find_token_name(pure.output[1].val, token)>>)]
    /\ UNCHANGED <<store, conn, started, acked, written, boot, stream>>

-----------------------------------------------------------------------------
(* MinioStorage::exists (infra/minio.rs).  stat_object answers Ok or an    *)
(* error, and the adapter reads the error's text.  An answer of the        *)
(* backend is [ok, missing, msg]: missing tells whether the backend said   *)
(* that the object is not there, msg is e.to_string(), here a description  *)
(* of the failure followed by the name of the object.                      *)

MaxNameLen == 3

\* str::contains
contains(s, pat) ==
    \E i \in 0..(Len(s) - Len(pat)) : SubSeq(s, i + 1, i + Len(pat)) = pat

ObjectNames == StringsUpTo({"0", "4"}, MaxNameLen)

MissingTexts == {<<"N","o","S","u","c","h","K","e","y">>}

FailureTexts ==
    {<<"I","n","t","e","r","n","a","l","E","r","r","o","r">>,
     <<"A","c","c","e","s","s","D","e","n","i","e","d">>,
     <<"t","i","m","e","d"," ","o","u","t">>}

StatObjectAnswers ==
    {[ok |-> TRUE, missing |-> FALSE, msg |-> <<>>]}
    \cup {[ok |-> FALSE, missing |-> TRUE, msg |-> d \o <<" ">> \o n] :
            d \in MissingTexts, n \in ObjectNames}
    \cup {[ok |-> FALSE, missing |-> FALSE, msg |-> d \o <<" ">> \o n] :
            d \in FailureTexts, n \in ObjectNames}

\* MinioStorage::exists
Minio_exists(answer) ==
    IF answer.ok THEN Ok(TRUE)
    ELSE IF \/ contains(answer.msg, <<"4","0","4">>)
            \/ contains(answer.msg, <<"N","o","t"," ","F","o","u","n","d">>)
            \/ contains(answer.msg, <<"N","o","S","u","c","h","K","e","y">>)
         THEN Ok(FALSE)
         ELSE Err("OperationFailed")

\* the adapter's exists on one answer of the backend
MinioExists ==
    /\ pure.fn = "exists" /\ pure.output = None
    /\ pure' = [pure EXCEPT !.output = Some(Minio_exists(pure.input))]
    /\ UNCHANGED <<store, conn, started, acked, written, boot, stream>>

\* store_artifact after exists_with_token: the error's response, 409, or on
\* to the write
StoreAfterExists ==
    /\ pure.fn = "exists" /\ pure.output # None /\ pure.resolved = None
    /\ LET found == pure.output[1]
       IN  pure' = [pure EXCEPT !.resolved = Some(
                IF ~found.ok
                THEN [write |-> FALSE,
                      resp |-> into_response(FromStorageError(found.err))]
                ELSE IF found.val
                THEN [write |-> FALSE,
                      resp |-> into_response(FromStorageError("AlreadyExists"))]
                ELSE [write |-> TRUE, resp |-> None])]
    /\ UNCHANGED <<store, conn, started, acked, written, boot, stream>>

-----------------------------------------------------------------------------
(* MultiStorageRouter called directly (infra/multi_storage.rs), with any   *)
(* token, configured or not.  The result of a call is what the method      *)
(* returns and the number of calls it made to a backend.                   *)

MaxTokenLen == 2

RouterTokens == StringsUpTo({"t", "A", "X"}, MaxTokenLen)

RouterOps == {"exists", "store", "retrieve"}

\* exists_with_token
exists_with_token(token, hash, up) ==
    LET r == resolve_storage(token)
    IN  IF ~r.ok THEN [result |-> Err(r.err), contacted |-> 0]
        ELSE [result |-> S3_exists(r.val.storage,
                                   build_key(r.val.prefix, hash), up),
              contacted |-> 1]

\* store_with_token
store_with_token(token, hash, up) ==
    LET r == resolve_storage(token)
    IN  IF ~r.ok THEN [result |-> Err(r.err), contacted |-> 0]
        ELSE LET head == S3_store_head(
                            S3_exists(r.val.storage,
                                      build_key(r.val.prefix, hash), up))
             IN  IF ~head.ok THEN [result |-> head, contacted |-> 1]
                 ELSE [result |-> Ok(TRUE), contacted |-> 2]

\* retrieve_with_token
retrieve_with_token(token, hash, up) ==
    LET r == resolve_storage(token)
    IN  IF ~r.ok THEN [result |-> Err(r.err), contacted |-> 0]
        ELSE [result |-> S3_retrieve(r.val.storage,
                                     build_key(r.val.prefix, hash), up),
              contacted |-> 1]

\* one call of the router
RouterCall ==
    /\ pure.fn = "router" /\ pure.output = None
    /\ \E up \in BOOLEAN :
        LET in == pure.input
        IN  pure' = [pure EXCEPT !.output = Some(
                CASE in.op = "exists" ->
                        exists_with_token(in.token, in.hash, up)
                  [] in.op = "store" ->
                        store_with_token(in.token, in.hash, up)
                  [] in.op = "retrieve" ->
                        retrieve_with_token(in.token, in.hash, up))]
    /\ UNCHANGED <<store, conn, started, acked, written, boot, stream>>

\* the handler's `?` on an error of the router
RouterError ==
    /\ pure.fn = "router" /\ pure.output # None /\ pure.resolved = None
    /\ ~pure.output[1].result.ok
    /\ pure' = [pure EXCEPT !.resolved = Some(
                    into_response(FromStorageError(pure.output[1].result.err)))]
    /\ UNCHANGED <<store, conn, started, acked, written, boot, stream>>

-----------------------------------------------------------------------------
(* A client that disconnects during its upload.  The body stream of the    *)
(* request ends with an error after some of its chunks; the forwarding     *)
(* task passes the chunks and the error on to the body of put_object, and  *)
(* the upload stops.  What the backend holds at the key afterwards is the  *)
(* backend's affair: nothing new, or the bytes that arrived.  The server   *)
(* calls no delete.                                                        *)

\* the bucket after an upload that stopped after the chunks sent
aborted_upload(objects, key, sent, kept) ==
    IF kept THEN with_object(objects, key, concat(forward_stream(sent, <<>>, <<>>)))
    ELSE objects

\* the client of c goes away while put_object is sending its body; nobody
\* is left to answer
Disconnect(c) ==
    /\ conn[c].pc = "put"
    /\ \E n \in 0..(Len(conn[c].body) - 1) : \E kept \in BOOLEAN :
        LET t == Target(conn[c].token[1], conn[c].hash)
        IN  store' = [store EXCEPT ![t.bucket] =
                        aborted_upload(@, t.key, SubSeq(conn[c].body, 1, n),
                                       kept)]
    /\ conn' = [conn EXCEPT ![c].pc = "done",
                            ![c].disconnected = TRUE,
                            ![c].backendUp = FALSE,
                            ![c].calls = Called(c, "put", Err("OperationFailed"))]
    /\ UNCHANGED <<started, acked, written, boot, stream, pure>>

-----------------------------------------------------------------------------
(* The storage key of a tenant's prefix as the configuration gives it and  *)
(* of a hash as a request gives it: normalize_prefix when the              *)
(* configuration is resolved, validate_hash and build_key at the request.  *)

\* hashes of requests: valid ones, and ones with a "/"
KeyHashes ==
    { <<"c">>, <<"c","c">>, <<"c","_">>, <<"c","/","c">>, <<"/","c">> }

\* resolve_env_vars: the prefix of the tenant, normalised
KeyPrefix ==
    /\ pure.fn = "build_key" /\ pure.output = None
    /\ pure' = [pure EXCEPT !.output =
                    Some(normalize_prefix(pure.input.prefix))]
    /\ UNCHANGED <<store, conn, started, acked, written, boot, stream>>

\* the handlers: validate_hash(&hash)?, then build_key in the router
KeyBuild ==
    /\ pure.fn = "build_key" /\ pure.output # None /\ pure.resolved = None
    /\ validate_hash(pure.input.hash).ok
    /\ pure' = [pure EXCEPT !.resolved =
                    Some(build_key(pure.output[1], pure.input.hash))]
    /\ UNCHANGED <<store, conn, started, acked, written, boot, stream>>

-----------------------------------------------------------------------------
(* The tenant of a token, by the registry the server builds and by         *)
(* find_service_token, over resolved configurations whose tenants have     *)
(* distinct names (validate checks the names, not the token values).       *)

MaxTenants == 3

TenantNames == <<"t1", "t2", "t3", "t4", "t5">>

\* the lists of n resolved tenants, the i-th named t<i> with the prefix
\* /<i>, each with one of two tokens and one of the two buckets
ResolvedTenants(n) ==
    {[i \in 1..n |->
        [name |-> TenantNames[i], bucket |-> bs[i],
         prefix |-> <<"/">> \o to_string(i), access_token |-> ts[i]]] :
        ts \in [1..n -> {TokA, TokB}], bs \in [1..n -> {"b1", "b2"}]}

\* ResolvedConfig::find_service_token: iter().find(..), the first match
find_service_token(list, token) ==
    IF \E i \in DOMAIN list : list[i].access_token = token
    THEN Some(list[CHOOSE i \in DOMAIN list :
                      /\ list[i].access_token = token
                      /\ \A j \in 1..(i - 1) : list[j].access_token # token])
    ELSE None

\* token_map.get(token), in auth_middleware's walk and in resolve_storage
token_map_get(map, token) ==
    IF token \in DOMAIN map THEN Some(map[token]) ELSE None

\* MultiStorageRouter::from_config: config.build_token_registry()
BuildTokenRegistry ==
    /\ pure.fn = "build_token_registry" /\ pure.output = None
    /\ pure' = [pure EXCEPT !.output = Some(build_token_registry(pure.input))]
    /\ UNCHANGED <<store, conn, started, acked, written, boot, stream>>

\* a token is resolved, by the server's map and by find_service_token
ResolveToken ==
    /\ pure.fn = "build_token_registry" /\ pure.output # None
    /\ pure.resolved = None
    /\ \E token \in {TokA, TokB, <<"t","X">>} :
        pure' = [pure EXCEPT !.resolved = Some(
                    [token |-> token,
                     server |-> token_map_get(pure.output[1], token),
                     first |-> find_service_token(pure.input, token)])]
    /\ UNCHANGED <<store, conn, started, acked, written, boot, stream>>

-----------------------------------------------------------------------------
(* Specifications *)

Init ==
    /\ store = [b \in storages |-> <<>>]
    /\ conn = [c \in Conns |-> Idle]
    /\ started = 0
    /\ acked = {}
    /\ written = {}
    /\ boot = Serving
    /\ stream = NoStream
    /\ pure = NoCall

\* a request of the concurrent clients
StartMain(c) ==
    Start(c, Methods, AuthMain, HashMain, BodyMain, MaxRequests, {TokenOrder},
          NoContentLength, {FALSE})

\* a client that sends one request at a time
Sequential(c) == \A d \in Conns \ {c} : conn[d].pc = "idle"

\* a request with any of the Authorization headers
StartAuth(c) ==
    /\ Sequential(c)
    /\ Start(c, Methods, AuthSeq, HashMain, BodySeq, MaxSeqRequests, Orders,
             NoContentLength, {FALSE})

\* an authenticated request with any of the hashes
StartHash(c) ==
    /\ Sequential(c)
    /\ Start(c, Methods, {Authorization(TokA)}, HashSeq, BodySeq,
             MaxSeqRequests, {TokenOrder}, NoContentLength, {FALSE})

Next ==
    \E c \in Conns :
        \/ StartMain(c)
        \/ Health(c)
        \/ HandlerExists(c)
        \/ AdapterExists(c)
        \/ PutObject(c)
        \/ GetObject(c)
        \/ Respond(c)

Spec == Init /\ [][Next]_vars

NextAuth ==
    \E c \in Conns :
        \/ StartAuth(c)
        \/ HandlerExists(c)
        \/ AdapterExists(c)
        \/ PutObject(c)
        \/ GetObject(c)
        \/ Respond(c)

SpecAuth == Init /\ [][NextAuth]_vars

NextHash ==
    \E c \in Conns :
        \/ StartHash(c)
        \/ HandlerExists(c)
        \/ AdapterExists(c)
        \/ PutObject(c)
        \/ GetObject(c)
        \/ Respond(c)

SpecHash == Init /\ [][NextHash]_vars

\* startup, then requests one at a time
InitBoot ==
    /\ store = [b \in storages |-> <<>>]
    /\ conn = [c \in Conns |-> Idle]
    /\ started = 0
    /\ acked = {}
    /\ written = {}
    /\ boot = Booting
    /\ stream = NoStream
    /\ pure = NoCall

StartBoot(c) ==
    /\ Sequential(c)
    /\ Start(c, Methods, {None, Authorization(TokA), Authorization(TokC)},
             {H1}, BodySeq, MaxSeqRequests, {TokenOrder}, NoContentLength, {FALSE})

NextBoot ==
    \/ FromConfig
    \/ TestAllBuckets
    \/ Bind
    \/ \E c \in Conns :
        \/ StartBoot(c)
        \/ Health(c)
        \/ HandlerExists(c)
        \/ AdapterExists(c)
        \/ PutObject(c)
        \/ GetObject(c)
        \/ Respond(c)

SpecBoot == InitBoot /\ [][NextBoot]_vars

\* one body through one adapter
InitStream ==
    /\ store = [b \in storages |-> <<>>]
    /\ conn = [c \in Conns |-> Idle]
    /\ started = 0
    /\ acked = {}
    /\ written = {}
    /\ boot = Serving
    /\ stream \in {[NoStream EXCEPT !.adapter = a, !.op = o,
                                    !.data = Chunks(n)] :
                      a \in Adapters, o \in {"store", "retrieve"},
                      n \in 0..MaxChunks}
    /\ pure = NoCall

NextStream ==
    \/ StreamRead
    \/ ChannelSend
    \/ BodyPoll
    \/ StreamDeliver
    \/ MinioBuffer
    \/ MinioPut
    \/ MinioCollect
    \/ MinioCursor
    \/ MinioDeliver

SpecStream == InitStream /\ [][NextStream]_vars

\* one prefix of the configuration file is normalised
InitPrefix ==
    /\ store = [b \in storages |-> <<>>]
    /\ conn = [c \in Conns |-> Idle]
    /\ started = 0
    /\ acked = {}
    /\ written = {}
    /\ boot = Booting
    /\ stream = NoStream
    /\ pure \in {[NoCall EXCEPT !.fn = "normalize_prefix", !.input = p] :
                    p \in PrefixInputs}

NextPrefix == NormalizePrefix

SpecPrefix == InitPrefix /\ [][NextPrefix]_vars

\* one configuration file is loaded
InitConfig ==
    /\ store = [b \in storages |-> <<>>]
    /\ conn = [c \in Conns |-> Idle]
    /\ started = 0
    /\ acked = {}
    /\ written = {}
    /\ boot = Booting
    /\ stream = NoStream
    /\ pure \in {[NoCall EXCEPT !.fn = "validate", !.input = y] :
                    y \in YamlConfigs}

NextConfig ==
    \/ FromFile
    \/ ResolveEnvVars

SpecConfig == InitConfig /\ [][NextConfig]_vars

\* one list of raw tokens is made a registry, and a name is looked up
InitTokens ==
    /\ store = [b \in storages |-> <<>>]
    /\ conn = [c \in Conns |-> Idle]
    /\ started = 0
    /\ acked = {}
    /\ written = {}
    /\ boot = Booting
    /\ stream = NoStream
    /\ pure \in {[NoCall EXCEPT !.fn = "from_strings", !.input = r] :
                    r \in SeqsUpTo(RawTokens, MaxRawTokens)}

NextTokens ==
    \/ FromStrings
    \/ FindTokenName

SpecTokens == InitTokens /\ [][NextTokens]_vars

\* Content-Length headers: none, the length of the body, text that is no
\* number, a negative number, text that is not ASCII
ContentLengths ==
    [b \in BodyMain |->
        {None, Some(to_string(Len(concat(b)))), Some(<<"a","b","c">>),
         Some(<<"-","1">>), Some(<<"U+00E9">>)}]

\* an authenticated PUT with any of the Content-Length headers, or a GET,
\* one request at a time
StartLength(c) ==
    /\ Sequential(c)
    /\ Start(c, Methods, {Authorization(TokA), Authorization(TokB)}, {H1},
             BodyMain, MaxSeqRequests, {TokenOrder}, ContentLengths, {FALSE})

NextLength ==
    \E c \in Conns :
        \/ StartLength(c)
        \/ HandlerExists(c)
        \/ AdapterExists(c)
        \/ PutObject(c)
        \/ GetObject(c)
        \/ Respond(c)

SpecLength == Init /\ [][NextLength]_vars

\* an authenticated request to a backend that answers or stays silent, one
\* request at a time
StartLive(c) ==
    /\ Sequential(c)
    /\ Start(c, Methods, {Authorization(TokA), Authorization(TokB)}, {H1},
             BodySeq, MaxSeqRequests, {TokenOrder}, NoContentLength, BOOLEAN)

NextLive ==
    \E c \in Conns :
        \/ StartLive(c)
        \/ HandlerExists(c)
        \/ AdapterExists(c)
        \/ PutObject(c)
        \/ GetObject(c)
        \/ Respond(c)

\* every call of the client returns, and the runtime goes on with the task
\* of a request whose call has returned; a client that keeps its connection
\* open receives the response
Fairness ==
    \A c \in Conns :
        /\ WF_vars(HandlerExists(c))
        /\ WF_vars(AdapterExists(c))
        /\ WF_vars(PutObject(c))
        /\ WF_vars(GetObject(c))
        /\ WF_vars(Respond(c))

SpecLive == Init /\ [][NextLive]_vars /\ Fairness

\* a PUT whose body stream ends well, or with an error after some chunks
InitBody ==
    /\ store = [b \in storages |-> <<>>]
    /\ conn = [c \in Conns |-> Idle]
    /\ started = 0
    /\ acked = {}
    /\ written = {}
    /\ boot = Serving
    /\ stream \in {[NoStream EXCEPT
                        !.adapter = a, !.op = "store", !.failing = e,
                        !.data = IF e THEN Chunks(n) \o <<StreamError>>
                                 ELSE Chunks(n)] :
                      a \in Adapters, e \in BOOLEAN, n \in 0..MaxChunks}
    /\ pure = NoCall

NextBody ==
    \/ StreamRead
    \/ ChannelSend
    \/ BodyPoll
    \/ MinioBuffer
    \/ MinioPut
    \/ StoreReturns
    \/ StoreAnswered

SpecBody == InitBody /\ [][NextBody]_vars

InitExists ==
    /\ store = [b \in storages |-> <<>>]
    /\ conn = [c \in Conns |-> Idle]
    /\ started = 0
    /\ acked = {}
    /\ written = {}
    /\ boot = Serving
    /\ stream = NoStream
    /\ pure \in {[NoCall EXCEPT !.fn = "exists", !.input = a] :
                    a \in StatObjectAnswers}

NextExists ==
    \/ MinioExists
    \/ StoreAfterExists

SpecExists == InitExists /\ [][NextExists]_vars

InitRouter ==
    /\ store = [b \in storages |-> <<>>]
    /\ conn = [c \in Conns |-> Idle]
    /\ started = 0
    /\ acked = {}
    /\ written = {}
    /\ boot = Serving
    /\ stream = NoStream
    /\ pure \in {[NoCall EXCEPT !.fn = "router",
                                !.input = [op |-> o, token |-> t, hash |-> H1]] :
                    o \in RouterOps, t \in RouterTokens}

NextRouter ==
    \/ RouterCall
    \/ RouterError

SpecRouter == InitRouter /\ [][NextRouter]_vars

\* an authenticated request on a new connection, one request at a time, from
\* a client that may go away
StartCancel(c) ==
    /\ conn[c].pc = "idle"
    /\ \A d \in Conns \ {c} : conn[d].pc \in {"idle", "done"}
    /\ Start(c, Methods, {Authorization(TokA), Authorization(TokB)}, {H1},
             BodyMain, MaxSeqRequests, {TokenOrder}, NoContentLength, {FALSE})

NextCancel ==
    \E c \in Conns :
        \/ StartCancel(c)
        \/ HandlerExists(c)
        \/ AdapterExists(c)
        \/ PutObject(c)
        \/ Disconnect(c)
        \/ GetObject(c)
        \/ Respond(c)

SpecCancel == Init /\ [][NextCancel]_vars

InitKey ==
    /\ store = [b \in storages |-> <<>>]
    /\ conn = [c \in Conns |-> Idle]
    /\ started = 0
    /\ acked = {}
    /\ written = {}
    /\ boot = Serving
    /\ stream = NoStream
    /\ pure \in {[NoCall EXCEPT !.fn = "build_key",
                                !.input = [prefix |-> p, hash |-> h]] :
                    p \in PrefixInputs, h \in KeyHashes}

NextKey ==
    \/ KeyPrefix
    \/ KeyBuild

SpecKey == InitKey /\ [][NextKey]_vars

InitRegistry ==
    /\ store = [b \in storages |-> <<>>]
    /\ conn = [c \in Conns |-> Idle]
    /\ started = 0
    /\ acked = {}
    /\ written = {}
    /\ boot = Booting
    /\ stream = NoStream
    /\ pure \in {[NoCall EXCEPT !.fn = "build_token_registry", !.input = l] :
                    l \in UNION {ResolvedTenants(n) : n \in 1..MaxTenants}}

NextRegistry ==
    \/ BuildTokenRegistry
    \/ ResolveToken

SpecRegistry == InitRegistry /\ [][NextRegistry]_vars

-----------------------------------------------------------------------------
(* Properties *)

Answered(c) == conn[c].pc = "done"

Success(c) == conn[c].resp.status \in 200..299

\* the request passed the middleware and the hash validation
Admitted(c) == conn[c].pc # "idle" /\ conn[c].token # None

ConfiguredTokens ==
    {ServiceAccessTokens[i].access_token : i \in DOMAIN ServiceAccessTokens}

\* the bodies of the PUTs of c's tenant for c's hash that were answered with
\* success before c arrived
OwnAcked(c) ==
    {a[3] : a \in {x \in conn[c].ackedBefore : x[1] = conn[c].token[1]}}

\* C1: round trip.  A PUT whose body was stored is answered 200, and a GET by
\* the same tenant for the same hash that arrives after that answer (one
\* request at a time, the backend answering) is answered 200 with exactly the
\* bytes of that body.
C1_RoundTrip ==
    \A c \in Conns : Answered(c) =>
        /\ conn[c].method = "PUT" /\ conn[c].wrote => conn[c].resp.status = 200
        /\ conn[c].method = "GET" /\ Admitted(c) /\ OwnAcked(c) # {}
                                  /\ conn[c].backendUp
             => /\ conn[c].resp.status = 200
                /\ conn[c].resp.data \in OwnAcked(c)

\* C2: write-once, one request at a time.  Once a PUT for a tenant and hash
\* has been answered 200, a PUT for them that arrives later is answered 409
\* and a GET that arrives later still returns the bytes of the first.
C2_WriteOnce ==
    \A c \in Conns : Answered(c) /\ Admitted(c) /\ conn[c].backendUp =>
        /\ conn[c].method = "PUT" =>
              IF OwnAcked(c) = {}
              THEN conn[c].resp.status = 200
              ELSE conn[c].resp.status = 409
        /\ conn[c].method = "GET" /\ OwnAcked(c) # {} =>
              OwnAcked(c) = {conn[c].resp.data}

\* the step changes the object of bucket b at key k, or removes it
Changes(b, k) ==
    \/ k \notin DOMAIN store'[b]
    \/ store'[b][k] # store[b][k]

\* C3 as stated: under every interleaving, once an object exists at a key no
\* step removes it or changes its bytes.
C3_Immutable ==
    [][\A b \in storages : \A k \in DOMAIN store[b] : ~Changes(b, k)]_vars

\* C3 as amended: an object is never removed; a PUT that arrives when its
\* object exists never writes and is answered 409 (500 when the backend does
\* not answer its exists check); the bytes at a key are replaced only by the
\* put_object of a PUT that arrived before the object existed.
C3_ImmutableButRace ==
    [][/\ \A b \in storages : \A k \in DOMAIN store[b] :
            /\ k \in DOMAIN store'[b]
            /\ Changes(b, k) =>
                 \E c \in Conns :
                    /\ conn[c].pc = "put" /\ conn'[c].wrote
                    /\ ~conn[c].existedBefore
                    /\ Target(conn[c].token[1], conn[c].hash)
                         = [bucket |-> b, key |-> k]
       /\ \A c \in Conns :
            conn'[c].method = "PUT" /\ conn'[c].existedBefore =>
                /\ ~conn'[c].wrote
                /\ conn'[c].pc \in {"respond", "done"} =>
                     /\ conn'[c].resp.status \in {409, 500}
                     /\ conn'[c].backendUp => conn'[c].resp.status = 409
      ]_vars

\* a PUT that arrived when its object existed has been refused with 409
C3_Witness ==
    \E c \in Conns :
        /\ Answered(c) /\ conn[c].method = "PUT" /\ conn[c].existedBefore
        /\ conn[c].resp.status = 409

\* C4: namespace isolation.  A GET of a tenant for a hash that tenant never
\* stored is answered 404 (500 when the backend does not answer) and never
\* with an object, whatever other tenants stored under that hash; and the
\* tenant's key for that hash holds no object.
C4_NamespaceIsolation ==
    /\ \A c \in Conns :
          /\ Answered(c) /\ conn[c].method = "GET" /\ Admitted(c)
          /\ <<conn[c].token[1], conn[c].hash>> \notin written
          => /\ conn[c].resp.status \in {404, 500}
             /\ conn[c].backendUp => conn[c].resp.status = 404
             /\ conn[c].resp.data = <<>>
    /\ \A tok \in tokens : \A h \in HashMain :
          validate_hash(h).ok /\ <<tok, h>> \notin written
          => Lookup(store, tok, h) = None

\* tenant dev-team gets 404 for a hash that ci-team, on the same bucket under
\* another prefix, had stored with success before the GET arrived
C4_Witness ==
    \E c \in Conns :
        /\ Answered(c) /\ conn[c].method = "GET"
        /\ conn[c].token = Some(TokB)
        /\ \E a \in conn[c].ackedBefore : a[1] = TokA
        /\ <<TokB, conn[c].hash>> \notin written
        /\ token_map[TokA].bucket = token_map[TokB].bucket
        /\ token_map[TokA].prefix # token_map[TokB].prefix
        /\ conn[c].resp.status = 404

\* C5: two tenants with different prefixes on one bucket that each PUT the
\* same hash with a different body are both answered 200, and afterwards the
\* key of each holds its own body.
C5_TwoTenants ==
    \A c, d \in Conns :
        /\ Answered(c) /\ conn[c].method = "PUT" /\ conn[c].wrote
        /\ Answered(d) /\ conn[d].method = "PUT" /\ conn[d].wrote
        /\ conn[c].token # conn[d].token
        /\ conn[c].hash = conn[d].hash
        /\ conn[c].body # conn[d].body
        /\ token_map[conn[c].token[1]].bucket = token_map[conn[d].token[1]].bucket
        /\ token_map[conn[c].token[1]].prefix # token_map[conn[d].token[1]].prefix
        => /\ conn[c].resp.status = 200
           /\ conn[d].resp.status = 200
           /\ Lookup(store, conn[c].token[1], conn[c].hash)
                = Some(concat(conn[c].body))
           /\ Lookup(store, conn[d].token[1], conn[d].hash)
                = Some(concat(conn[d].body))

\* the header is "Bearer " followed by a configured token
ValidAuthorization(auth) ==
    \E tok \in ConfiguredTokens : auth = Authorization(tok)

\* C6: a request whose Authorization header is absent, does not begin with
\* "Bearer " or carries a token that is no configured token is answered 401,
\* whatever its hash and the objects stored; a request whose header carries a
\* configured token is not answered 401.
C6_Unauthorized ==
    \A c \in Conns : conn[c].pc # "idle" =>
        IF ValidAuthorization(conn[c].auth)
        THEN conn[c].resp.status # 401
        ELSE conn[c].pc \in {"respond", "done"} /\ conn[c].resp.status = 401

\* a request with an unknown token is answered 401 while objects are stored
C6_Witness ==
    \E c \in Conns :
        /\ Answered(c)
        /\ conn[c].auth = Authorization(<<"t","X">>)
        /\ conn[c].hash = H1
        /\ written # {}
        /\ conn[c].resp.status = 401

\* C7: a PUT whose put_object was carried out is answered 200 with an empty
\* body.
C7_PutAnswered200 ==
    \A c \in Conns :
        Answered(c) /\ conn[c].method = "PUT" /\ conn[c].wrote =>
            /\ conn[c].resp.status = 200
            /\ conn[c].resp.text = ""
            /\ conn[c].resp.data = <<>>

\* the hashes the specification rejects: empty, longer than 128 bytes, or
\* with a character outside [A-Za-z0-9_-]
RejectedHash(h) ==
    \/ Len(h) = 0
    \/ str_len(h) > 128
    \/ \E i \in 1..Len(h) :
          h[i] \notin AsciiLetters \cup AsciiDigits \cup {"-", "_"}

\* C8: an authenticated request is answered 400 exactly when its hash is
\* empty, longer than 128 bytes or has a character outside [A-Za-z0-9_-].
C8_HashValidation ==
    \A c \in Conns :
        Answered(c) /\ ValidAuthorization(conn[c].auth) =>
            (conn[c].resp.status = 400 <=> RejectedHash(conn[c].hash))

\* C9: every answer that is not 2xx carries Content-Type text/plain exactly.
C9_ErrorsTextPlain ==
    \A c \in Conns :
        Answered(c) /\ ~Success(c) => conn[c].resp.ctype = Some("text/plain")

\* C10: every answer with the status of an error kind has the fixed body of
\* that kind (404, 409, 400, 401 "Unauthorized", 500), and a request whose
\* backend call failed is answered 500, never with success.
C10_ErrorMapping ==
    \A c \in Conns : Answered(c) =>
        /\ conn[c].resp.status = 404 => conn[c].resp.text = "The record was not found"
        /\ conn[c].resp.status = 409 =>
              conn[c].resp.text = "Cannot override an existing record"
        /\ conn[c].resp.status = 400 => conn[c].resp.text = "Bad request"
        /\ conn[c].resp.status = 401 => conn[c].resp.text = "Unauthorized"
        /\ conn[c].resp.status = 500 => conn[c].resp.text = "Internal server error"
        /\ ~conn[c].backendUp => conn[c].resp.status = 500

\* the keys the configured tenants address for the hashes of the clients
TenantKeys ==
    {build_key(token_map[tok].prefix, h) : tok \in tokens, h \in HashMain}

\* C11: a GET that passed the middleware and the validation and whose key
\* holds no object when get_object is called is answered 404 with the body
\* "The record was not found" (the backend answering); and retrieve on a
\* key without object yields NotFound, not OperationFailed.
C11_GetMissing404 ==
    [][/\ \A b \in storages : \A k \in TenantKeys :
             ~has_object(b, k) => S3_retrieve(b, k, TRUE) = Err("NotFound")
       /\ \A c \in Conns :
             /\ conn[c].pc = "get" /\ conn'[c].pc = "respond"
             /\ conn'[c].backendUp
             /\ Lookup(store, conn[c].token[1], conn[c].hash) = None
             => /\ conn'[c].resp.status = 404
                /\ conn'[c].resp.text = "The record was not found"
                /\ conn'[c].resp.data = <<>>
      ]_vars

\* a GET for a key without object was answered 404 with that body while
\* other objects were stored
C11_Witness ==
    \E c \in Conns :
        /\ Answered(c) /\ conn[c].method = "GET" /\ Admitted(c)
        /\ conn[c].backendUp
        /\ Lookup(store, conn[c].token[1], conn[c].hash) = None
        /\ written # {}
        /\ conn[c].resp.status = 404
        /\ conn[c].resp.text = "The record was not found"

\* C12: a PUT whose exists check in the handler finds the object (the
\* backend answering) is answered 409 with the body "Cannot override an
\* existing record"; the step leaves the store as it was and the request
\* never carries out a put_object.
C12_PutExisting409 ==
    [][\A c \in Conns :
          /\ conn[c].pc = "exists" /\ conn'[c] # conn[c]
          /\ conn'[c].backendUp
          /\ Lookup(store, conn[c].token[1], conn[c].hash) # None
          => /\ conn'[c].pc = "respond"
             /\ conn'[c].resp.status = 409
             /\ conn'[c].resp.text = "Cannot override an existing record"
             /\ ~conn'[c].wrote
             /\ store' = store
      ]_vars

\* a PUT with other bytes than the stored ones was refused by the handler
\* (the 409 of the handler carries the charset) and the object is as it was
C12_Witness ==
    \E c \in Conns :
        /\ Answered(c) /\ conn[c].method = "PUT"
        /\ conn[c].resp.status = 409
        /\ conn[c].resp.ctype = Some("text/plain; charset=utf-8")
        /\ ~conn[c].wrote
        /\ Lookup(store, conn[c].token[1], conn[c].hash) # None
        /\ Lookup(store, conn[c].token[1], conn[c].hash)
              # Some(concat(conn[c].body))

\* C13: GET /health is answered 200 with the body "OK" whatever its
\* Authorization header and whatever is stored; it resolves no token, makes
\* no storage call and leaves the store as it is.
C13_Health ==
    [][\A c \in Conns :
          conn'[c].method = "HEALTH" /\ conn'[c] # conn[c] =>
             /\ conn'[c].pc \in {"respond", "done"}
             /\ conn'[c].resp.status = 200
             /\ conn'[c].resp.text = "OK"
             /\ conn'[c].token = None
             /\ conn'[c].backendUp /\ ~conn'[c].wrote
             /\ store' = store
      ]_vars

\* GET /health without Authorization header was answered 200 OK while
\* objects were stored
C13_Witness ==
    \E c \in Conns :
        /\ Answered(c) /\ conn[c].method = "HEALTH"
        /\ conn[c].auth = None
        /\ written # {}
        /\ conn[c].resp.status = 200 /\ conn[c].resp.text = "OK"

\* C18: fail-fast startup.  The listener is bound only after a storage was
\* created for every configured bucket and every one answered its ping;
\* after an exit no request is ever accepted; so whenever a request is
\* being served every configured backend has answered a ping.
C18_FailFast ==
    /\ boot.pc \in {"bind", "serving"} =>
          /\ boot.created = storages
          /\ boot.answered = storages
    /\ boot.pc = "test_all_buckets" => boot.created = storages
    /\ (\E c \in Conns : conn[c].pc # "idle") =>
          /\ boot.pc = "serving"
          /\ boot.answered = storages
    /\ boot.pc = "exit" => \A c \in Conns : conn[c].pc = "idle"

\* a request was answered after the startup went through every ping
C18_Witness ==
    \E c \in Conns :
        /\ Answered(c) /\ conn[c].resp.status = 202
        /\ boot.pc = "serving"
        /\ boot.answered = {Buckets[i].name : i \in DOMAIN Buckets}

\* C14: no mutual exclusion between requests.  Every put_object carried out
\* leaves the bytes of its own request at the key, whatever the key held,
\* and nothing else changes a key: of two PUTs that both write, the object
\* that remains is that of the put_object carried out last.
C14_LastWriteWins ==
    [][/\ \A c \in Conns :
             conn[c].pc = "put" /\ conn'[c].wrote =>
                Lookup(store', conn[c].token[1], conn[c].hash)
                   = Some(concat(conn[c].body))
       /\ \A b \in storages : \A k \in DOMAIN store'[b] :
             (k \notin DOMAIN store[b] \/ store'[b][k] # store[b][k]) =>
                \E c \in Conns :
                   /\ conn[c].pc = "put" /\ conn'[c].wrote
                   /\ Target(conn[c].token[1], conn[c].hash)
                         = [bucket |-> b, key |-> k]
                   /\ store'[b][k] = concat(conn[c].body)
      ]_vars

\* two PUTs of one tenant for one hash with different bodies both found no
\* object, both wrote and both were answered with success
C14_Witness ==
    \E c, d \in Conns :
        /\ c # d
        /\ Answered(c) /\ conn[c].method = "PUT" /\ conn[c].wrote /\ Success(c)
        /\ Answered(d) /\ conn[d].method = "PUT" /\ conn[d].wrote /\ Success(d)
        /\ ~conn[c].existedBefore /\ ~conn[d].existedBefore
        /\ conn[c].token = conn[d].token /\ conn[c].hash = conn[d].hash
        /\ concat(conn[c].body) # concat(conn[d].body)
        /\ Lookup(store, conn[c].token[1], conn[c].hash)
              = Some(concat(conn[d].body))

\* the key the specification lays out: the prefix without its leading "/",
\* then "/" and the hash, or the hash alone when nothing is left of the prefix
StrippedKey(prefix, hash) ==
    LET p == IF prefix # <<>> /\ Head(prefix) = "/" THEN Tail(prefix)
             ELSE prefix
    IN  IF p = <<>> THEN hash ELSE p \o <<"/">> \o hash

\* C15: the key that exists, put and get send to the backend for a tenant's
\* prefix and a hash is the prefix without its leading "/", "/" and the hash
\* (the hash alone for an empty prefix); no stored key begins with "/".
C15_KeyLayout ==
    /\ \A c \in Conns : Admitted(c) =>
          Target(conn[c].token[1], conn[c].hash).key
             = StrippedKey(token_map[conn[c].token[1]].prefix, conn[c].hash)
    /\ \A b \in storages : \A k \in DOMAIN store[b] : Head(k) # "/"

\* C16: the adapter's store, called for a key that holds an object (the
\* backend answering its exists), returns AlreadyExists, which the handler
\* answers as that error; it carries out no put_object and leaves the
\* object as it was.
C16_StoreExisting ==
    [][\A c \in Conns :
          /\ conn[c].pc = "store" /\ conn'[c] # conn[c]
          /\ conn'[c].backendUp
          /\ Lookup(store, conn[c].token[1], conn[c].hash) # None
          => /\ conn'[c].pc = "respond"
             /\ conn'[c].resp = into_response(FromStorageError("AlreadyExists"))
             /\ ~conn'[c].wrote
             /\ store' = store
      ]_vars

\* a PUT that passed the handler's exists found the object of another PUT
\* in the adapter's store (the 409 of the error mapping carries text/plain)
\* and the object of the other is as it was
C16_Witness ==
    \E c \in Conns :
        /\ Answered(c) /\ conn[c].method = "PUT"
        /\ ~conn[c].existedBefore /\ ~conn[c].wrote
        /\ conn[c].resp = into_response("Storage(AlreadyExists)")
        /\ \E d \in Conns \ {c} :
              /\ conn[d].wrote
              /\ concat(conn[d].body) # concat(conn[c].body)
              /\ Lookup(store, conn[c].token[1], conn[c].hash)
                    = Some(concat(conn[d].body))

\* C17: no whole-payload buffering.  While a body is stored, the chunks the
\* server holds are bounded by the capacity of the channel and the chunk in
\* hand, whatever the length of the body and whatever the adapter; while an
\* object is retrieved the server holds one chunk at most.
C17_BoundedBuffering ==
    /\ stream.op = "store" => Held <= CHANNEL_CAPACITY + 1
    /\ stream.op = "retrieve" => Held <= 1

\* through S3Storage alone the bound holds
C17_S3Bounded ==
    stream.adapter = "s3" => C17_BoundedBuffering

\* C19: the prefix of a resolved tenant is the empty string, or begins with
\* "/" and does not end with "/", whatever the prefix given.
C19_PrefixCanonical ==
    pure.fn = "normalize_prefix" /\ pure.output # None =>
        LET p == pure.output[1]
        IN  \/ p = <<>>
            \/ starts_with(p, "/") /\ ~ends_with(p, "/")

\* what holds of every normalised prefix: it is empty or begins with "/",
\* and it keeps a final "/" only when nothing but "/" came before it
C19_BeginsWithSlash ==
    pure.fn = "normalize_prefix" /\ pure.output # None =>
        LET p == pure.output[1]
        IN  \/ p = <<>>
            \/ /\ starts_with(p, "/")
               /\ ends_with(p, "/") =>
                     \/ p = <<"/">>
                     \/ ends_with(trim(pure.input), "/")
                          /\ ends_with(pop(trim(pure.input)), "/")

\* the names of a list of buckets or service tokens
Names(list) == {list[i].name : i \in DOMAIN list}

\* the configurations the specification admits
WellFormed(config) ==
    /\ config.buckets # <<>>
    /\ \A i \in DOMAIN config.buckets : config.buckets[i].name # ""
    /\ Cardinality(Names(config.buckets)) = Len(config.buckets)
    /\ config.service_access_tokens # <<>>
    /\ \A i \in DOMAIN config.service_access_tokens :
          LET t == config.service_access_tokens[i]
          IN  /\ t.name # ""
              /\ t.bucket \in Names(config.buckets)
              /\ t.access_token # None \/ t.access_token_env # None
    /\ Cardinality(Names(config.service_access_tokens))
          = Len(config.service_access_tokens)
    /\ config.port # 0

\* C20: validation accepts a configuration only if it is well formed
\* (buckets and service tokens non-empty lists with non-empty, pairwise
\* distinct names, every token with a configured bucket and a token value
\* or variable, port not 0); otherwise it returns a validation error and
\* no configuration is resolved.
C20_ValidateConfig ==
    pure.fn = "validate" /\ pure.output # None =>
        /\ pure.output[1].ok => WellFormed(pure.input)
        /\ ~WellFormed(pure.input) =>
              /\ pure.output[1] = Err("Validation")
              /\ pure.resolved = None

\* a configuration of two buckets and two service tokens was accepted and
\* resolved
C20_Witness ==
    /\ pure.fn = "validate" /\ pure.output = Some(Ok(TRUE))
    /\ pure.resolved # None /\ pure.resolved[1].ok
    /\ Len(pure.input.buckets) = 2
    /\ Len(pure.input.service_access_tokens) = 2

\* the entries of a list that are not blank, trimmed, in their order
RECURSIVE NonBlank(_)
NonBlank(raw_tokens) ==
    IF raw_tokens = <<>> THEN <<>>
    ELSE IF trim(Head(raw_tokens)) = <<>> THEN NonBlank(Tail(raw_tokens))
    ELSE <<trim(Head(raw_tokens))>> \o NonBlank(Tail(raw_tokens))

HasEquals(e) == \E i \in 1..Len(e) : e[i] = "="

\* the name and the token the specification gives entry i of the non-blank
\* entries es
EntryName(es, i) ==
    IF HasEquals(es[i]) THEN trim(split_once(es[i], "=")[1][1])
    ELSE LET n == Cardinality({j \in 1..i : ~HasEquals(es[j])})
         IN  IF n = 1 THEN <<"d","e","f","a","u","l","t">>
             ELSE <<"t","o","k","e","n","-">> \o to_string(n)

EntryToken(es, i) ==
    IF HasEquals(es[i]) THEN trim(split_once(es[i], "=")[1][2]) ELSE es[i]

\* C21: from_strings skips blank entries and trims; "name=token" registers
\* token under name, the first entry without "=" under "default" and the
\* n-th under "token-n"; find_token_name gives a registered token a name it
\* was registered under and any other string None; an empty name or token
\* is Invalid, a list without entries MissingField.
C21_TokenRegistry ==
    pure.fn = "from_strings" /\ pure.output # None =>
        LET es == NonBlank(pure.input)
            out == pure.output[1]
            bad(i) == EntryName(es, i) = <<>> \/ EntryToken(es, i) = <<>>
        IN  IF \E i \in DOMAIN es : bad(i) THEN out = Err("Invalid")
            ELSE IF es = <<>>
            THEN out = Err("MissingField(SERVICE_ACCESS_TOKEN)")
            ELSE /\ out.ok
                 /\ \A i \in DOMAIN es :
                       /\ find_token_name(out.val, EntryToken(es, i)) # None
                       /\ find_token_name(out.val, EntryToken(es, i))[1]
                            \in {EntryName(es, j) :
                                   j \in {k \in DOMAIN es :
                                            EntryToken(es, k) = EntryToken(es, i)}}
                       /\ EntryName(es, i) \in DOMAIN out.val.tokens
                 /\ (\A i, j \in DOMAIN es :
                        i # j => /\ EntryToken(es, i) # EntryToken(es, j)
                                 /\ EntryName(es, i) # EntryName(es, j))
                    => \A i \in DOMAIN es :
                          /\ find_token_name(out.val, EntryToken(es, i))
                                = Some(EntryName(es, i))
                          /\ out.val.tokens[EntryName(es, i)] = EntryToken(es, i)
                 /\ pure.resolved # None =>
                       LET token == pure.resolved[1][1]
                       IN  (\A i \in DOMAIN es : EntryToken(es, i) # token)
                              => pure.resolved[1][2] = None

\* a named entry between two entries without "=", with blanks around: the
\* third entry's token was looked up and found under "token-2"
C21_Witness ==
    /\ pure.fn = "from_strings"
    /\ pure.input = << <<"a">>, <<" ","m"," ","="," ","b"," ">>, <<"c">> >>
    /\ pure.resolved = Some(<< <<"c">>, Some(<<"t","o","k","e","n","-","2">>) >>)

\* C22: the walk compares the candidate token with every configured token:
\* the comparisons made for a request that carries a bearer token are as
\* many as the configured tokens, whether the token matches or not.
C22_NoShortCircuit ==
    \A c \in Conns :
        conn[c].pc # "idle" /\ bearer_token(conn[c].auth) # None =>
            conn[c].comparisons = Cardinality(tokens)

\* what holds of the walk: a candidate that matches no token is compared
\* with all of them, one that matches with at least one and at most all,
\* and the token found is the same in every order
C22_WalkBreaks ==
    \A c \in Conns :
        conn[c].pc # "idle" /\ bearer_token(conn[c].auth) # None =>
            LET candidate == bearer_token(conn[c].auth)[1]
            IN  /\ matched_token(candidate) = None =>
                      conn[c].comparisons = Cardinality(tokens)
                /\ conn[c].comparisons \in 1..Cardinality(tokens)
                /\ \A o \in Orders :
                      walk(candidate, o, 0).matched = matched_token(candidate)

\* the key lies in the namespace of a tenant with that prefix: the whole
\* bucket for the empty prefix, else the keys that begin with prefix and "/"
IsUnder(key, prefix) ==
    prefix = <<>> \/ strip_prefix(key, prefix \o <<"/">>) # None

C24_GatingOrder ==
    \A c \in Conns : conn[c].pc # "idle" =>
        /\ conn[c].resp.status \in {400, 401} =>
              conn[c].calls = <<>> /\ ~conn[c].wrote
        /\ ~ValidAuthorization(conn[c].auth) =>
              conn[c].resp.status = 401 /\ conn[c].calls = <<>>
        /\ ValidAuthorization(conn[c].auth) /\ conn[c].hash = BadHash =>
              conn[c].resp.status = 400 /\ conn[c].calls = <<>>
        /\ conn[c].calls # <<>> =>
              ValidAuthorization(conn[c].auth) /\ conn[c].hash # BadHash

\* a request without Authorization header and with an invalid hash was
\* answered 401 while an object was stored
C24_Witness ==
    \E c \in Conns :
        /\ Answered(c) /\ conn[c].auth = None /\ conn[c].hash = BadHash
        /\ conn[c].resp.status = 401 /\ conn[c].calls = <<>>
        /\ written # {}

\* C25: the steps of one PUT are sequential.  Its backend calls are, in
\* this order, the exists of the handler, the exists of the adapter's store
\* and put_object, all on one bucket and key and for a hash that passed the
\* validation; put_object is issued only when the exists before it returned
\* false; and a request that is answered issues no further call.
C25_PutSequential ==
    [][\A c \in Conns :
          /\ conn[c].method = "PUT" =>
                /\ Len(conn[c].calls) <= 3
                /\ conn[c].calls # <<>> => validate_hash(conn[c].hash).ok
                /\ \A i \in DOMAIN conn[c].calls :
                      /\ conn[c].calls[i].op = (IF i = 3 THEN "put" ELSE "exists")
                      /\ conn[c].calls[i].bucket = conn[c].calls[1].bucket
                      /\ conn[c].calls[i].key = conn[c].calls[1].key
                      /\ i > 1 => conn[c].calls[i - 1].result = Ok(FALSE)
          /\ conn[c].pc \in {"respond", "done"} =>
                \/ conn'[c].calls = conn[c].calls
                \/ conn[c].pc = "done" /\ conn'[c].calls = <<>>
      ]_vars

\* one PUT went through exists, exists and put_object and was answered;
\* another stopped at the adapter's exists, which found that object
C25_Witness ==
    \E c, d \in Conns :
        /\ c # d /\ Answered(d) /\ conn[d].method = "PUT" /\ conn[d].wrote
        /\ Len(conn[d].calls) = 3
        /\ conn[d].calls[2].result = Ok(FALSE)
        /\ conn[d].calls[3].result = Ok(TRUE)
        /\ conn[c].method = "PUT" /\ conn[c].pc = "respond"
        /\ Len(conn[c].calls) = 2 /\ conn[c].calls[2].result = Ok(TRUE)

\* C26: exists answers false only when the backend said that the object is
\* missing; on any other failure it fails with OperationFailed, and the PUT
\* is answered 500 and issues no write.
C26_FailureNeverAbsent ==
    pure.fn = "exists" /\ pure.output # None =>
        /\ pure.output[1] = Ok(FALSE) => pure.input.missing
        /\ ~pure.input.ok /\ ~pure.input.missing =>
              /\ pure.output[1] = Err("OperationFailed")
              /\ pure.resolved # None =>
                    /\ ~pure.resolved[1].write
                    /\ pure.resolved[1].resp.status = 500

\* S3Storage::exists: Ok(false) only without the object, an error when the
\* backend does not answer; a PUT whose exists got no answer is answered 500
\* and has written nothing.
C26_S3Exists ==
    /\ \A b \in storages : \A k \in TenantKeys : \A up \in BOOLEAN :
          /\ S3_exists(b, k, up) = Ok(FALSE) => up /\ ~has_object(b, k)
          /\ ~up => S3_exists(b, k, up) = Err("OperationFailed")
    /\ \A c \in Conns :
          /\ conn[c].method = "PUT" /\ conn[c].calls # <<>>
          /\ conn[c].pc \in {"respond", "done"}
          /\ ~conn[c].calls[Len(conn[c].calls)].result.ok
          /\ conn[c].calls[Len(conn[c].calls)].op = "exists"
          => conn[c].resp.status = 500 /\ ~conn[c].wrote

\* C27: no retries.  A PUT issues at most one put_object and a GET at most
\* one get_object; a call that failed is the request's last call, and the
\* request is answered with that error's response: 500, or 404 for NotFound.
C27_NoRetries ==
    \A c \in Conns :
        LET calls == conn[c].calls
            of(op) == {i \in DOMAIN calls : calls[i].op = op}
        IN  /\ Cardinality(of("put")) <= 1
            /\ Cardinality(of("get")) <= 1
            /\ conn[c].method = "GET" => Len(calls) <= 1
            /\ \A i \in DOMAIN calls : ~calls[i].result.ok => i = Len(calls)
            /\ calls # <<>> /\ ~calls[Len(calls)].result.ok
               /\ conn[c].pc \in {"respond", "done"} =>
                  /\ conn[c].resp.status =
                        (IF calls[Len(calls)].result.err = "NotFound"
                         THEN 404 ELSE 500)
                  /\ calls[Len(calls)].result.err \in
                        {"NotFound", "OperationFailed"}
                  /\ ~conn[c].wrote

\* a put_object and a get_object that failed were each the only one of their
\* request, answered 500
C27_Witness ==
    \E c, d \in Conns :
        /\ Answered(c) /\ conn[c].method = "PUT" /\ Len(conn[c].calls) = 3
        /\ conn[c].calls[3].result = Err("OperationFailed")
        /\ conn[c].resp.status = 500
        /\ Answered(d) /\ conn[d].method = "GET" /\ Len(conn[d].calls) = 1
        /\ conn[d].calls[1].result = Err("OperationFailed")
        /\ conn[d].resp.status = 500

\* C28: called with a token that is not in the registry, exists, store and
\* retrieve of the router fail with the Unauthenticated error, which is
\* answered 401, and no backend is contacted.
C28_UnknownTokenUnauthenticated ==
    pure.fn = "router" /\ pure.output # None /\ pure.input.token \notin tokens =>
        /\ pure.output[1].result = Err("Unauthenticated")
        /\ pure.output[1].contacted = 0
        /\ pure.resolved # None => pure.resolved[1].status = 401

\* what the router does with such a token: OperationFailed, no backend
\* contacted, 500
C28_UnknownTokenOperationFailed ==
    pure.fn = "router" /\ pure.output # None /\ pure.input.token \notin tokens =>
        /\ pure.output[1].result = Err("OperationFailed")
        /\ pure.output[1].contacted = 0
        /\ pure.resolved # None => pure.resolved[1].status = 500

C30_EventuallyAnswered ==
    /\ \A c \in Conns :
          conn[c].pc \in {"exists", "store", "put", "get"} ~> Answered(c)
    /\ [](\A c \in Conns :
            /\ conn[c].silent /\ conn[c].pc \in {"respond", "done"}
            => /\ conn[c].resp.status = 500
               /\ conn[c].calls # <<>>
               /\ conn[c].calls[Len(conn[c].calls)].result
                     = Err("OperationFailed")
               /\ ~conn[c].wrote)

\* a PUT to a silent backend was answered 500 after one call, following a
\* request that the backend answered
C30_Witness ==
    \E c \in Conns :
        /\ Answered(c) /\ conn[c].method = "PUT" /\ conn[c].silent
        /\ conn[c].resp.status = 500 /\ Len(conn[c].calls) = 1
        /\ written # {}

\* C31: the token map and the storages are built once, by from_config, and
\* no request changes them.  While the server serves, the accepted tokens are
\* the configured ones, each with its configured bucket and prefix, there is
\* one storage per configured bucket, and every step (PUT, GET, health,
\* whatever the outcome of the authentication) leaves both maps as they are.
C31_RegistryImmutable ==
    [][boot.pc = "serving" =>
          /\ boot'.token_map = boot.token_map
          /\ boot'.created = boot.created
          /\ boot'.pc = "serving"
          /\ boot.created = {Buckets[i].name : i \in DOMAIN Buckets}
          /\ DOMAIN boot.token_map =
                {ServiceAccessTokens[i].access_token :
                    i \in DOMAIN ServiceAccessTokens}
          /\ \A i \in DOMAIN ServiceAccessTokens :
                LET e == ServiceAccessTokens[i]
                IN  /\ boot.token_map[e.access_token].bucket = e.bucket
                    /\ boot.token_map[e.access_token].prefix = e.prefix
          /\ \A t \in RouterTokens \cup {TokB, TokC} :
                /\ auth_middleware(Authorization(t)).ok
                      <=> t \in DOMAIN boot.token_map
                /\ t \in DOMAIN boot.token_map =>
                      resolve_storage(t) =
                          Ok([storage |-> boot.token_map[t].bucket,
                              prefix |-> boot.token_map[t].prefix])
      ]_vars

\* after the startup a PUT has written and a health request was answered,
\* the maps being those of the startup
C31_Witness ==
    /\ boot.pc = "serving"
    /\ DOMAIN boot.token_map = tokens /\ boot.created = storages
    /\ \E c, d \in Conns :
        /\ Answered(c) /\ conn[c].method = "HEALTH"
        /\ Answered(d) /\ conn[d].method = "PUT" /\ conn[d].wrote

\* C32: when the client disconnects in the middle of an upload the upload
\* stops, and the server cleans nothing up: no step removes or repairs an
\* object, so what the backend kept of the upload, a truncated object, stays
\* at the key; a later PUT for the key whose backend answers is answered 409
\* and writes nothing, and a later GET returns the bytes that are there.
C32_NoCleanup ==
    [][/\ \A b \in storages : \A k \in DOMAIN store[b] :
             k \in DOMAIN store'[b] /\ store'[b][k] = store[b][k]
       /\ \A c \in Conns :
             /\ conn'[c].disconnected /\ ~conn[c].disconnected =>
                   /\ ~conn'[c].wrote /\ conn'[c].resp.status = 0
                   /\ <<conn[c].token[1], conn[c].hash>> \notin written'
             /\ conn'[c].pc = "respond" /\ conn[c].pc # "respond"
                /\ conn'[c].backendUp /\ conn[c].existedBefore =>
                   /\ conn'[c].method = "PUT" =>
                         conn'[c].resp.status = 409 /\ ~conn'[c].wrote
                   /\ conn'[c].method = "GET" =>
                         /\ conn'[c].resp.status = 200
                         /\ Some(conn'[c].resp.data) =
                               Lookup(store, conn[c].token[1], conn[c].hash)
      ]_vars

\* a truncated object is at a key for which no PUT has written, and a GET
\* for it was answered 200 with the truncated bytes
C32_Witness ==
    \E c \in Conns :
        /\ Answered(c) /\ conn[c].method = "GET" /\ conn[c].resp.status = 200
        /\ written = {}
        /\ conn[c].resp.data = <<2>>
        /\ Lookup(store, conn[c].token[1], conn[c].hash) = Some(<<2>>)

\* C33: reads leave the store alone.  No step of a GET or of a health
\* request, and no exists check of a PUT, creates, changes or removes an
\* object: the store changes only in the put_object step of a PUT.
C33_ReadsKeepStore ==
    [][\A c \in Conns :
          /\ conn'[c] # conn[c] /\ conn'[c].method \in {"GET", "HEALTH"} =>
                store' = store
          /\ conn'[c] # conn[c] /\ conn[c].pc \in {"exists", "store", "get"} =>
                store' = store
          /\ conn'[c] # conn[c] /\ store' # store =>
                /\ conn[c].method = "PUT" /\ conn[c].pc = "put"
                /\ conn'[c].wrote
                /\ \A b \in storages : \A k \in DOMAIN store[b] :
                      k \in DOMAIN store'[b]
                /\ \A b \in storages : \A k \in DOMAIN store'[b] :
                      k \notin DOMAIN store[b] \/ Changes(b, k) =>
                          b = Target(conn[c].token[1], conn[c].hash).bucket
                          /\ k = Target(conn[c].token[1], conn[c].hash).key
      ]_vars

\* a GET was answered 200 with the bytes of an object, after the exists
\* checks of the PUT that wrote it, and the object is as the PUT left it
C33_Witness ==
    \E c, d \in Conns :
        /\ Answered(c) /\ conn[c].method = "GET" /\ conn[c].resp.status = 200
        /\ Answered(d) /\ conn[d].method = "PUT" /\ conn[d].wrote
        /\ Len(conn[d].calls) = 3
        /\ conn[c].token = conn[d].token /\ conn[c].hash = conn[d].hash
        /\ Lookup(store, conn[d].token[1], conn[d].hash)
              = Some(concat(conn[d].body))
        /\ conn[c].resp.data = concat(conn[d].body)

\* the proper prefixes of a body, chunk by chunk
Truncations(body) ==
    {concat(SubSeq(body, 1, n)) : n \in 0..(Len(body) - 1)}

C35_StreamErrorIs500 ==
    stream.op = "store" /\ stream.failing =>
        /\ stream.result # None => stream.result[1] = Err("OperationFailed")
        /\ stream.resp # None =>
              /\ stream.resp[1].status = 500
              /\ stream.result # None
        /\ stream.adapter = "minio" => stream.received = <<>> /\ ~stream.handed

\* a body that failed after three chunks was answered 500 through the S3
\* adapter, the three chunks having gone to the backend
C35_Witness ==
    /\ stream.op = "store" /\ stream.failing /\ stream.adapter = "s3"
    /\ stream.resp # None /\ stream.resp[1].status = 500
    /\ stream.received = Chunks(3)

\* the prefixes that normalize_prefix produces
CanonicalPrefixes == {normalize_prefix(p) : p \in PrefixInputs}

\* C36: the key is injective on normalised prefixes and valid hashes: a key
\* built from a prefix and a hash is the key of no other pair of a
\* normalised prefix and a valid hash.
C36_KeyInjective ==
    pure.fn = "build_key" /\ pure.resolved # None =>
        \A p \in CanonicalPrefixes : \A h \in KeyHashes :
            validate_hash(h).ok /\ build_key(p, h) = pure.resolved[1] =>
                p = pure.output[1] /\ h = pure.input.hash

\* the key /c/c/c of the prefix /c/c and the hash c, which the prefix /c
\* would reach with c/c if that were a hash
C36_Witness ==
    /\ pure.fn = "build_key" /\ pure.resolved # None
    /\ pure.output[1] = <<"/","c","/","c">> /\ pure.input.hash = <<"c">>
    /\ pure.resolved[1] = build_key(<<"/","c">>, <<"c","/","c">>)
    /\ <<"/","c">> \in CanonicalPrefixes

\* C37: the tenant the server resolves a token to is the first tenant of the
\* configuration with that token, the one find_service_token returns, also
\* when two tenants have the same token; a token of no tenant resolves to
\* none.
C37_FirstTenantWins ==
    pure.fn = "build_token_registry" /\ pure.resolved # None =>
        pure.resolved[1].server = pure.resolved[1].first

\* what the registry does: the server resolves a token to the last tenant
\* of the configuration with that token
C37_LastTenantWins ==
    pure.fn = "build_token_registry" /\ pure.resolved # None =>
        LET r == pure.resolved[1]
            with == {i \in DOMAIN pure.input :
                        pure.input[i].access_token = r.token}
        IN  IF with = {} THEN r.server = None
            ELSE r.server =
                    Some(pure.input[CHOOSE i \in with : \A j \in with : j <= i])

====
